---- MODULE Spec2Model ----
(***************************************************************************)
(* Merkle-tree engines of merkle-tree-api: the in-memory incremental tree  *)
(* (src/src/merkle_tree.rs), the LMDB-backed incremental tree              *)
(* (src/src/lmdb_tree.rs over src/src/storage.rs) and the sparse Merkle    *)
(* tree (src/src/sparse_merkle_tree.rs).                                   *)
(*                                                                         *)
(* Byte strings are sequences of units.  A unit is either one raw byte or  *)
(* one Keccak-256 digest (32 bytes kept as a block that remembers the      *)
(* byte string it is the digest of).  Keccak-256 is therefore injective on *)
(* its input byte string and nothing else is assumed about it.             *)
(***************************************************************************)
EXTENDS Integers, Sequences, FiniteSets, TLC

VARIABLES
    tree,      \* IncrementalMerkleTree: leaves, cached_hashes, cached_root, cache_valid
    storage,   \* LmdbStorage of the persistent tree: leaves_db, cache_db, metadata_db
    lmdb,      \* LmdbMerkleTree instance: max_leaves (the storage handle is `storage`)
    smt,       \* SparseMerkleTree: depth, empty and its own LmdbStorage
    inserted,  \* history: the (key, value) pairs passed to SparseMerkleTree::insert
    call       \* the last public call: operation, arguments and what it returned

vars == <<tree, storage, lmdb, smt, inserted, call>>

(***************************************************************************)
(* Bounds of the model.                                                    *)
(***************************************************************************)
MaxN == 4          \* leaves added by the small specification
MaxBatch == 2      \* longest add_leaves batch of the small specification
LargeBatch == 511  \* size of the one large add_leaves batch (SpecLarge)
LargeTail == 3     \* leaves added besides the large batch (SpecLarge)
CapSmall == 2      \* smallest persisted max_leaves (SpecCapacity)
MaxDepth == 4      \* largest depth of a SparseMerkleTree (SpecSMT)
MaxInserts == 3    \* insert calls on the SparseMerkleTree (SpecSMT)
MaxCacheLevels == 33  \* levels of one store_cache_batch: MAX_LEVELS + 1 (SpecCache)
MaxFill == 2       \* distinct contents of a stored cache level (SpecCache)
MaxWriters == 2    \* concurrent writer tasks (SpecWriters)
MaxReads == 2      \* reads the reader task makes one after the other (SpecReadWrite)
MaxInitial == 2    \* leaves stored before the tasks start (SpecWriters, SpecReadWrite)
MaxAdders == 2     \* tasks calling add_leaves under the write lock
MaxTaskBatch == 2  \* longest batch of one such task
MaxRoots == 2      \* root() calls of the task that reads the root

(***************************************************************************)
(* Option and Result values.                                               *)
(***************************************************************************)
None == <<>>
Some(x) == <<x>>
IsSome(o) == Len(o) = 1
Unwrap(o) == o[1]

\* A sequence given element by element, as the stored vector (TLC would
\* otherwise keep the constructor unevaluated and redo it at every use).
Vec(elements) == elements \o <<>>

(***************************************************************************)
(* Bytes and hashing.                                                      *)
(***************************************************************************)
Byte(n) == [keccak |-> FALSE, byte |-> n, of |-> <<>>]

Keccak256(bytes) == << [keccak |-> TRUE, byte |-> 0, of |-> bytes] >>

\* hex::encode: two hexadecimal characters per byte, high nibble first.
\* A character records which nibble of which unit it spells.
hex_encode(bytes) ==
    Vec([c \in 1..(2 * Len(bytes)) |->
            [high |-> (c % 2 = 1), unit |-> bytes[(c + 1) \div 2]]])

\* hex::decode: Err (None) on an odd length or on characters that do not
\* pair up to a byte, otherwise the bytes.
hex_decode(str) ==
    IF Len(str) % 2 # 0
    THEN None
    ELSE IF \A b \in 1..(Len(str) \div 2) :
                /\ str[2 * b - 1].high
                /\ ~ str[2 * b].high
                /\ str[2 * b - 1].unit = str[2 * b].unit
         THEN Some(Vec([b \in 1..(Len(str) \div 2) |-> str[2 * b].unit]))
         ELSE None

\* Vec::get / slice::get with a 0-based index.
Get(vec, i) == IF i < Len(vec) THEN Some(vec[i + 1]) ELSE None

(***************************************************************************)
(* IncrementalMerkleTree (src/src/merkle_tree.rs).                         *)
(***************************************************************************)
MAX_LEAVES == 2048

max_depth == 64

\* Mutant: the two halves are hashed in the other order.
hash_pair_swapped(left, right) == Keccak256(right \o left)

hash_pair(left, right) == Keccak256(left \o right)

IMT_new ==
    [leaves |-> <<>>, cached_hashes |-> <<>>, cached_root |-> None,
     cache_valid |-> TRUE]

\* Mutant: the flag and the cached root survive the mutation.
invalidate_cache_keeps_root(t) == [t EXCEPT !.cached_hashes = <<>>]

invalidate_cache(t) ==
    [t EXCEPT !.cache_valid = FALSE, !.cached_root = None,
              !.cached_hashes = <<>>]

\* Mutant: the last element of an odd level is hashed alone.
next_level_hashes_no_duplicate(current_hashes) ==
    Vec([c \in 1..((Len(current_hashes) + 1) \div 2) |->
            LET left == current_hashes[2 * c - 1]
                right == IF 2 * c <= Len(current_hashes)
                         THEN current_hashes[2 * c] ELSE <<>>
            IN hash_pair(left, right)])

\* One pass of `for chunk in current_hashes.chunks(2)`.
next_level_hashes(current_hashes) ==
    Vec([c \in 1..((Len(current_hashes) + 1) \div 2) |->
            LET left == current_hashes[2 * c - 1]
                right == IF 2 * c <= Len(current_hashes)
                         THEN current_hashes[2 * c] ELSE left
            IN hash_pair(left, right)])

\* The `while level_size > 1` loop of compute_tree; returned is TRUE when the
\* loop left through the max_depth return.
RECURSIVE compute_levels(_, _)
compute_levels(cached_hashes, current_level) ==
    IF Len(cached_hashes[current_level + 1]) > 1
    THEN IF current_level >= max_depth
         THEN [cached_hashes |-> cached_hashes, returned |-> TRUE]
         ELSE compute_levels(
                  Append(cached_hashes,
                         next_level_hashes(cached_hashes[current_level + 1])),
                  current_level + 1)
    ELSE [cached_hashes |-> cached_hashes, returned |-> FALSE]

compute_tree(t) ==
    IF t.leaves = <<>>
    THEN t
    ELSE LET r == compute_levels(<<t.leaves>>, 0)
             last == r.cached_hashes[Len(r.cached_hashes)]
         IN IF r.returned
            THEN [t EXCEPT !.cached_hashes = r.cached_hashes]
            ELSE [t EXCEPT !.cached_hashes = r.cached_hashes,
                           !.cached_root = IF Len(last) >= 1
                                           THEN Some(last[1])
                                           ELSE t.cached_root,
                           !.cache_valid = TRUE]

\* Mutant: the capacity test lets one more leaf in.
IMT_add_leaf_off_by_one(t, leaf) ==
    IF Len(t.leaves) > MAX_LEAVES
    THEN [tree |-> t, ret |-> "Err"]
    ELSE [tree |-> invalidate_cache([t EXCEPT !.leaves = Append(@, leaf)]),
          ret |-> "Ok"]

\* Public methods return [tree |-> the tree afterwards, ret |-> the result].
IMT_add_leaf(t, leaf) ==
    IF Len(t.leaves) >= MAX_LEAVES
    THEN [tree |-> t, ret |-> "Err"]
    ELSE [tree |-> invalidate_cache([t EXCEPT !.leaves = Append(@, leaf)]),
          ret |-> "Ok"]

\* Mutant: add_leaves leaves the cache as it is.
IMT_add_leaves_keeps_cache(t, leaves) ==
    IF Len(t.leaves) + Len(leaves) > MAX_LEAVES
    THEN [tree |-> t, ret |-> "Err"]
    ELSE [tree |-> [t EXCEPT !.leaves = @ \o leaves], ret |-> "Ok"]

IMT_add_leaves(t, leaves) ==
    IF Len(t.leaves) + Len(leaves) > MAX_LEAVES
    THEN [tree |-> t, ret |-> "Err"]
    ELSE [tree |-> invalidate_cache([t EXCEPT !.leaves = @ \o leaves]),
          ret |-> "Ok"]

IMT_num_leaves(t) == Len(t.leaves)

IMT_root(t) ==
    IF t.leaves = <<>>
    THEN [tree |-> t, ret |-> None]
    ELSE IF t.cache_valid /\ IsSome(t.cached_root)
         THEN [tree |-> t, ret |-> t.cached_root]
         ELSE LET c == compute_tree(t)
              IN [tree |-> c, ret |-> c.cached_root]

\* The `loop` of get_proof; None when `cached_hashes.get(current_level)?`
\* finds no level.
RECURSIVE IMT_proof_loop(_, _, _, _, _)
IMT_proof_loop(t, siblings, directions, current_index, current_level) ==
    LET level == Get(t.cached_hashes, current_level)
    IN IF ~ IsSome(level)
       THEN None
       ELSE LET level_hashes == Unwrap(level)
                level_size == IF current_level = 0
                              THEN Len(t.leaves) ELSE Len(level_hashes)
                sibling_index == IF current_index % 2 = 0
                                 THEN current_index + 1
                                 ELSE current_index - 1
                picked == IF sibling_index < level_size
                          THEN Get(level_hashes, sibling_index)
                          ELSE Get(level_hashes, current_index)
                direction == IF sibling_index < level_size
                             THEN current_index % 2 = 0
                             ELSE FALSE
            IN IF level_size <= 1
               THEN Some([siblings |-> siblings, directions |-> directions])
               ELSE IMT_proof_loop(
                        t,
                        IF IsSome(picked)
                        THEN Append(siblings, hex_encode(Unwrap(picked)))
                        ELSE siblings,
                        IF IsSome(picked)
                        THEN Append(directions, direction)
                        ELSE directions,
                        current_index \div 2,
                        current_level + 1)

\* Mutant: the proof is read from the cache without recomputing it.
IMT_get_proof_no_recompute(t, index) ==
    IF index >= Len(t.leaves)
    THEN [tree |-> t, ret |-> None]
    ELSE [tree |-> t, ret |-> IMT_proof_loop(t, <<>>, <<>>, index, 0)]

IMT_get_proof(t, index) ==
    IF index >= Len(t.leaves)
    THEN [tree |-> t, ret |-> None]
    ELSE LET c == IF ~ t.cache_valid THEN compute_tree(t) ELSE t
         IN [tree |-> c, ret |-> IMT_proof_loop(c, <<>>, <<>>, index, 0)]

\* The `for (sibling_hex, is_right) in siblings.zip(directions)` loop;
\* None stands for the `return false` on a sibling that is not hexadecimal.
RECURSIVE IMT_fold_proof(_, _, _)
IMT_fold_proof(current_hash, proof, k) ==
    IF k > Len(proof.siblings)
    THEN Some(current_hash)
    ELSE LET sibling == hex_decode(proof.siblings[k])
         IN IF ~ IsSome(sibling)
            THEN None
            ELSE IMT_fold_proof(
                     IF proof.directions[k]
                     THEN hash_pair(current_hash, Unwrap(sibling))
                     ELSE hash_pair(Unwrap(sibling), current_hash),
                     proof, k + 1)

IMT_verify_proof(leaf, proof, root) ==
    IF Len(proof.siblings) # Len(proof.directions)
    THEN FALSE
    ELSE LET folded == IMT_fold_proof(leaf, proof, 1)
         IN IsSome(folded) /\ Unwrap(folded) = root

(***************************************************************************)
(* LmdbStorage (src/src/storage.rs).  A database is the sequence of its    *)
(* entries in key order, which is the order LMDB keeps them in and the     *)
(* order a cursor returns them in; keys compare bytewise.                  *)
(***************************************************************************)
\* LMDB's default key order: memcmp on the common prefix, then the length.
RECURSIVE key_less_from(_, _, _)
key_less_from(a, b, i) ==
    IF i > Len(a) \/ i > Len(b)
    THEN Len(a) < Len(b)
    ELSE IF a[i] # b[i]
         THEN a[i] < b[i]
         ELSE key_less_from(a, b, i + 1)

key_less(a, b) == key_less_from(a, b, 1)

\* Number of entries whose key is below `key` (B-tree search), in lo..hi.
RECURSIVE db_search(_, _, _, _)
db_search(db, key, lo, hi) ==
    IF lo >= hi
    THEN lo
    ELSE LET mid == (lo + hi) \div 2
         IN IF key_less(db[mid + 1].key, key)
            THEN db_search(db, key, mid + 1, hi)
            ELSE db_search(db, key, lo, mid)

\* txn.put with WriteFlags::empty(): insert, or replace the value of the key.
txn_put(db, key, value) ==
    LET pos == db_search(db, key, 0, Len(db))
    IN IF pos < Len(db) /\ db[pos + 1].key = key
       THEN [db EXCEPT ![pos + 1].value = value]
       ELSE SubSeq(db, 1, pos) \o <<[key |-> key, value |-> value]>>
            \o SubSeq(db, pos + 1, Len(db))

\* txn.get: Some(value) or None for lmdb::Error::NotFound.
txn_get(db, key) ==
    LET pos == db_search(db, key, 0, Len(db))
    IN IF pos < Len(db) /\ db[pos + 1].key = key
       THEN Some(db[pos + 1].value)
       ELSE None

\* usize::to_be_bytes of an index below 2^32 (64-bit usize).
to_be_bytes(index) ==
    <<0, 0, 0, 0, (index \div 16777216) % 256, (index \div 65536) % 256,
      (index \div 256) % 256, index % 256>>

\* A u64 as its eight little-endian bytes, for a value below 2^31.
to_le_bytes(n) ==
    <<n % 256, (n \div 256) % 256, (n \div 65536) % 256,
      (n \div 16777216) % 256, 0, 0, 0, 0>>

\* The value of eight little-endian bytes, when it is below 2^31.
from_le_bytes(b) == b[1] + 256 * b[2] + 65536 * b[3] + 16777216 * b[4]

\* a < b for two u64 given as little-endian bytes.
RECURSIVE u64_less_from(_, _, _)
u64_less_from(a, b, i) ==
    IF i = 0
    THEN FALSE
    ELSE IF a[i] # b[i]
         THEN a[i] < b[i]
         ELSE u64_less_from(a, b, i - 1)

u64_less(a, b) == u64_less_from(a, b, 8)

\* The decimal digits `{}` prints for an unsigned integer, as ASCII codes.
RECURSIVE decimal(_)
decimal(n) ==
    IF n < 10 THEN <<48 + n>> ELSE Append(decimal(n \div 10), 48 + (n % 10))

\* format!("level_{}", level)
level_key(level) == <<108, 101, 118, 101, 108, 95>> \o decimal(level)

\* Length in bytes of a byte string (a digest is 32 bytes).
RECURSIVE byte_len(_)
byte_len(bytes) ==
    IF bytes = <<>>
    THEN 0
    ELSE (IF bytes[1].keccak THEN 32 ELSE 1) + byte_len(Tail(bytes))

\* bincode::serialize of a Vec<Vec<u8>>: the element count as a u64, then
\* every element as its length as a u64 followed by its bytes.
serialize_hashes(hashes) ==
    [count |-> to_le_bytes(Len(hashes)),
     items |-> Vec([i \in 1..Len(hashes) |->
                       [len |-> to_le_bytes(byte_len(hashes[i])),
                        bytes |-> hashes[i]]])]

\* bincode::deserialize into a Vec<Vec<u8>>: None for an input whose
\* lengths do not match its content.
deserialize_hashes(data) ==
    IF /\ from_le_bytes(data.count) = Len(data.items)
       /\ \A i \in 1..Len(data.items) :
              from_le_bytes(data.items[i].len) = byte_len(data.items[i].bytes)
    THEN Some(Vec([i \in 1..Len(data.items) |-> data.items[i].bytes]))
    ELSE None

\* bincode::serialize / deserialize of TreeMetadata { num_leaves, max_leaves }.
serialize_metadata(metadata) ==
    to_le_bytes(metadata.num_leaves) \o metadata.max_leaves

deserialize_metadata(data) ==
    IF Len(data) = 16
    THEN Some([num_leaves |-> from_le_bytes(SubSeq(data, 1, 8)),
               max_leaves |-> SubSeq(data, 9, 16)])
    ELSE None

\* A store as LmdbStorage::new creates it on a fresh path.
LmdbStorage_new ==
    [leaves_db |-> <<>>, cache_db |-> <<>>,
     metadata_db |-> [tree_metadata |-> None, cached_root |-> None]]

\* Mutant: every leaf is put under the key of index 0.
store_leaf_at_zero(s, index, leaf) ==
    [s EXCEPT !.leaves_db = txn_put(@, to_be_bytes(0), leaf)]

store_leaf(s, index, leaf) ==
    [s EXCEPT !.leaves_db = txn_put(@, to_be_bytes(index), leaf)]

\* Ok(Some(leaf)) or Ok(None).
get_leaf(s, index) == txn_get(s.leaves_db, to_be_bytes(index))

get_all_leaves(s) ==
    Vec([i \in 1..Len(s.leaves_db) |-> s.leaves_db[i].value])

\* The `txn.put(..)?` of append_leaves for the offsets lo..hi-1, each one
\* done before the next: Some(the database afterwards), None had a put failed.
RECURSIVE put_leaves(_, _, _, _, _)
put_leaves(db, start_index, leaves, lo, hi) ==
    IF lo >= hi
    THEN Some(db)
    ELSE IF hi = lo + 1
         THEN Some(txn_put(db, to_be_bytes(start_index + lo), leaves[lo + 1]))
         ELSE LET mid == (lo + hi) \div 2
                  first == put_leaves(db, start_index, leaves, lo, mid)
              IN IF IsSome(first)
                 THEN put_leaves(Unwrap(first), start_index, leaves, mid, hi)
                 ELSE None

\* The transaction commits when every put succeeded.
append_leaves(s, start_index, leaves) ==
    LET txn == put_leaves(s.leaves_db, start_index, leaves, 0, Len(leaves))
    IN IF IsSome(txn) THEN [s EXCEPT !.leaves_db = Unwrap(txn)] ELSE s

\* The puts of store_cache_batch for the levels from `level` (0-based) on,
\* each done before the next.
RECURSIVE put_levels(_, _, _)
put_levels(db, cache_levels, level) ==
    IF level >= Len(cache_levels)
    THEN db
    ELSE LET put == txn_put(db, level_key(level),
                            serialize_hashes(cache_levels[level + 1]))
         IN IF Len(put) = 0
            THEN put
            ELSE put_levels(put, cache_levels, level + 1)

store_cache_batch(s, cache_levels) ==
    [s EXCEPT !.cache_db = put_levels(@, cache_levels, 0)]

\* Ok(levels in cursor order), or None when an entry does not deserialize.
get_all_cache_levels(s) ==
    LET levels == Vec([i \in 1..Len(s.cache_db) |->
                          deserialize_hashes(s.cache_db[i].value)])
    IN IF \A i \in 1..Len(levels) : IsSome(levels[i])
       THEN Some(Vec([i \in 1..Len(levels) |-> Unwrap(levels[i])]))
       ELSE None

\* Ok(Some(hashes)), Ok(None) when the key is absent, or "Err" when the
\* entry does not deserialize.
get_cache_level(s, level) ==
    LET data == txn_get(s.cache_db, level_key(level))
    IN IF ~ IsSome(data)
       THEN None
       ELSE LET hashes == deserialize_hashes(Unwrap(data))
            IN IF IsSome(hashes) THEN hashes ELSE <<"Err", "Err">>

clear_cache(s) == [s EXCEPT !.cache_db = <<>>]

store_metadata(s, metadata) ==
    [s EXCEPT !.metadata_db.tree_metadata = Some(serialize_metadata(metadata))]

\* Ok(Some(metadata)), Ok(None), or "Err" when the entry does not deserialize.
get_metadata(s) ==
    IF ~ IsSome(s.metadata_db.tree_metadata)
    THEN None
    ELSE LET m == deserialize_metadata(Unwrap(s.metadata_db.tree_metadata))
         IN IF IsSome(m) THEN m ELSE <<"Err", "Err">>

IsErr(r) == Len(r) = 2

store_root(s, root) == [s EXCEPT !.metadata_db.cached_root = Some(root)]

get_root(s) == s.metadata_db.cached_root

(***************************************************************************)
(* LmdbMerkleTree (src/src/lmdb_tree.rs).  usize values that can reach     *)
(* 2^32 (max_leaves) are kept as their eight little-endian bytes.          *)
(***************************************************************************)
MAX_LEVELS == 32

\* 1 << MAX_LEVELS
LMDB_MAX_LEAVES ==
    [i \in 1..8 |-> IF i = (MAX_LEVELS \div 8) + 1
                    THEN 2 ^ (MAX_LEVELS % 8) ELSE 0]

\* LmdbMerkleTree::new on the store s.
Lmdb_new(s) ==
    LET metadata == get_metadata(s)
    IN [max_leaves |-> IF IsSome(metadata)
                       THEN Unwrap(metadata).max_leaves
                       ELSE LMDB_MAX_LEAVES]

Lmdb_num_leaves(s) ==
    LET metadata == get_metadata(s)
    IN IF IsSome(metadata)
       THEN Unwrap(metadata).num_leaves
       ELSE Len(get_all_leaves(s))

Lmdb_root(s) ==
    IF Lmdb_num_leaves(s) = 0 THEN None ELSE get_root(s)

\* Mutant: the two halves are hashed in the other order.
Lmdb_hash_pair_swapped(left, right) == Keccak256(right \o left)

Lmdb_hash_pair(left, right) == Keccak256(left \o right)

\* Mutant: an odd last element is dropped (chunks_exact).
Lmdb_next_level_hashes_exact(current_hashes) ==
    Vec([c \in 1..(Len(current_hashes) \div 2) |->
            Lmdb_hash_pair(current_hashes[2 * c - 1], current_hashes[2 * c])])

\* One pass of `for chunk in current_hashes.chunks(2)`.
Lmdb_next_level_hashes(current_hashes) ==
    Vec([c \in 1..((Len(current_hashes) + 1) \div 2) |->
            LET left == current_hashes[2 * c - 1]
                right == IF 2 * c <= Len(current_hashes)
                         THEN current_hashes[2 * c] ELSE left
            IN Lmdb_hash_pair(left, right)])

\* The `while cache_levels[current_level].len() > 1` loop; returned is TRUE
\* for the "Exceeded max levels" error.
RECURSIVE Lmdb_compute_levels(_, _)
Lmdb_compute_levels(cache_levels, current_level) ==
    IF Len(cache_levels[current_level + 1]) > 1
    THEN IF current_level >= MAX_LEVELS
         THEN [cache_levels |-> cache_levels, returned |-> TRUE]
         ELSE Lmdb_compute_levels(
                  Append(cache_levels,
                         Lmdb_next_level_hashes(cache_levels[current_level + 1])),
                  current_level + 1)
    ELSE [cache_levels |-> cache_levels, returned |-> FALSE]

\* Returns [storage |-> the store afterwards, ret |-> "Ok" or "Err"].
recompute_and_store_tree(s, t) ==
    LET leaves == get_all_leaves(s)
    IN IF leaves = <<>>
       THEN [storage |-> store_metadata(clear_cache(s),
                             [num_leaves |-> 0, max_leaves |-> t.max_leaves]),
             ret |-> "Ok"]
       ELSE LET r == Lmdb_compute_levels(<<leaves>>, 0)
                cache_levels == r.cache_levels
                root_level == cache_levels[Len(cache_levels)]
                s1 == store_cache_batch(s, cache_levels)
                s2 == IF Len(root_level) >= 1
                      THEN store_root(s1, root_level[1]) ELSE s1
                s3 == store_metadata(s2, [num_leaves |-> Len(leaves),
                                          max_leaves |-> t.max_leaves])
            IN IF r.returned
               THEN [storage |-> s, ret |-> "Err"]
               ELSE [storage |-> s3, ret |-> "Ok"]

Lmdb_add_leaf(s, t, leaf) ==
    LET current_count == Lmdb_num_leaves(s)
    IN IF ~ u64_less(to_le_bytes(current_count), t.max_leaves)
       THEN [storage |-> s, ret |-> "Err"]
       ELSE recompute_and_store_tree(store_leaf(s, current_count, leaf), t)

\* Mutant: the capacity test looks at the current count only.
Lmdb_add_leaves_count_only(s, t, leaves) ==
    LET current_count == Lmdb_num_leaves(s)
    IN IF ~ u64_less(to_le_bytes(current_count), t.max_leaves)
       THEN [storage |-> s, ret |-> "Err"]
       ELSE recompute_and_store_tree(append_leaves(s, current_count, leaves), t)

Lmdb_add_leaves(s, t, leaves) ==
    LET current_count == Lmdb_num_leaves(s)
    IN IF u64_less(t.max_leaves, to_le_bytes(current_count + Len(leaves)))
       THEN [storage |-> s, ret |-> "Err"]
       ELSE recompute_and_store_tree(append_leaves(s, current_count, leaves), t)

\* The `for _ in 0..MAX_LEVELS` loop of get_proof; None when
\* `cache_levels.get(current_level)?` finds no level.
RECURSIVE Lmdb_proof_loop(_, _, _, _, _, _)
Lmdb_proof_loop(cache_levels, num_leaves, siblings, current_index, current_level, iteration) ==
    IF iteration >= MAX_LEVELS
    THEN Some([siblings |-> siblings])
    ELSE LET level == Get(cache_levels, current_level)
         IN IF ~ IsSome(level)
            THEN None
            ELSE LET level_hashes == Unwrap(level)
                     level_size == IF current_level = 0
                                   THEN num_leaves ELSE Len(level_hashes)
                     sibling_index == IF current_index % 2 = 0
                                      THEN current_index + 1
                                      ELSE current_index - 1
                     picked == IF sibling_index < level_size
                               THEN Get(level_hashes, sibling_index)
                               ELSE Get(level_hashes, current_index)
                 IN IF level_size <= 1
                    THEN Some([siblings |-> siblings])
                    ELSE Lmdb_proof_loop(
                             cache_levels, num_leaves,
                             IF IsSome(picked)
                             THEN Append(siblings, hex_encode(Unwrap(picked)))
                             ELSE siblings,
                             current_index \div 2,
                             current_level + 1,
                             iteration + 1)

Lmdb_get_proof(s, index) ==
    LET num_leaves == Lmdb_num_leaves(s)
        cache_levels == get_all_cache_levels(s)
    IN IF index >= num_leaves
       THEN None
       ELSE IF ~ IsSome(cache_levels) \/ Unwrap(cache_levels) = <<>>
            THEN None
            ELSE Lmdb_proof_loop(Unwrap(cache_levels), num_leaves, <<>>,
                                 index, 0, 0)

\* The `for sibling_hex in proof.siblings.iter()` loop; None stands for the
\* `return false` on a sibling that is not hexadecimal.
RECURSIVE Lmdb_fold_proof(_, _, _, _)
Lmdb_fold_proof(current_hash, current_index, proof, k) ==
    IF k > Len(proof.siblings)
    THEN Some(current_hash)
    ELSE LET sibling == hex_decode(proof.siblings[k])
         IN IF ~ IsSome(sibling)
            THEN None
            ELSE Lmdb_fold_proof(
                     IF current_index % 2 = 0
                     THEN Lmdb_hash_pair(current_hash, Unwrap(sibling))
                     ELSE Lmdb_hash_pair(Unwrap(sibling), current_hash),
                     current_index \div 2, proof, k + 1)

Lmdb_verify_proof(leaf, proof, root, leaf_index) ==
    LET folded == Lmdb_fold_proof(leaf, leaf_index, proof, 1)
    IN IsSome(folded) /\ Unwrap(folded) = root

(***************************************************************************)
(* SparseMerkleTree (sparse_merkle_tree.rs) and the node operations of     *)
(* LmdbStorage it uses.  A tree is [depth, empty, storage]; its nodes live *)
(* in the cache database of its own store under the key "LL:index16".      *)
(***************************************************************************)
DEFAULT_DEPTH == 32

\* The first byte of the Keccak-256 digest of the byte strings used as keys:
\* Keccak256([0x02]) = f2ee15ea.., [0x04] = f3436814.., [0x07] = ee2a4bc7..,
\* [0x0a] = 0ef9d8f8..
digest_head(data) ==
    CASE data = <<Byte(2)>> -> 242
      [] data = <<Byte(4)>> -> 243
      [] data = <<Byte(7)>> -> 238
      [] data = <<Byte(10)>> -> 14

\* keccak(data): the 32-byte digest, one symbolic unit.
keccak(data) == Keccak256(data)

\* MSB-first bit access, for i < 8 (the bits of hash[0]).
bit_at(hash, i) ==
    LET byte == digest_head(hash[1].of)
        off == 7 - (i % 8)
    IN (byte \div (2 ^ off)) % 2

\* The lowercase hexadecimal digits of n, zero-padded to `width` characters.
RECURSIVE hex_digits(_, _)
hex_digits(n, width) ==
    IF width = 0
    THEN <<>>
    ELSE Append(hex_digits(n \div 16, width - 1),
                IF n % 16 < 10 THEN 48 + (n % 16) ELSE 87 + (n % 16))

\* format!("{:02}:{:016x}", level, index)
node_key(level, index) ==
    (IF level < 10 THEN <<48>> ELSE <<>>) \o decimal(level) \o <<58>>
        \o hex_digits(index, 16)

\* LmdbStorage::store_node
store_node(s, level, index, hash) ==
    [s EXCEPT !.cache_db = txn_put(@, node_key(level, index), hash)]

\* LmdbStorage::get_node
get_node(s, level, index) == txn_get(s.cache_db, node_key(level, index))

\* LmdbStorage::store_path_batch: one write transaction that puts every
\* (level, index, hash) of `updates`, in order, and commits.
RECURSIVE put_path(_, _, _)
put_path(db, updates, i) ==
    IF i > Len(updates)
    THEN db
    ELSE put_path(txn_put(db, node_key(updates[i].level, updates[i].index),
                          updates[i].hash),
                  updates, i + 1)

store_path_batch(s, updates) ==
    [s EXCEPT !.cache_db = put_path(@, updates, 1)]

\* Mutant: the two children are hashed in the other order.
hash_internal_swapped(left, right) == Keccak256(<<Byte(1)>> \o right \o left)

\* hash_internal: H(0x01 || left || right)
hash_internal(left, right) == Keccak256(<<Byte(1)>> \o left \o right)

\* hash_leaf: H(0x00 || H(key) || H(value))
hash_leaf(key_hash, value) ==
    Keccak256(<<Byte(0)>> \o key_hash \o Keccak256(value))

\* compute_empty: empty[0] = H(0x02), empty[i+1] = H(0x01 || empty[i] || empty[i]);
\* the vector has depth + 1 elements (element l at position l + 1).
RECURSIVE compute_empty(_)
compute_empty(depth) ==
    IF depth = 0
    THEN << Keccak256(<<Byte(2)>>) >>
    ELSE LET out == compute_empty(depth - 1)
         IN Append(out, hash_internal(out[depth], out[depth]))

\* SparseMerkleTree::new, for a depth in 1..=64 (the assertion).
SMT_new(depth) ==
    [depth |-> depth, empty |-> compute_empty(depth), storage |-> LmdbStorage_new]

\* leaf_index_from_key_hash: the first `depth` bits of the digest, MSB first.
RECURSIVE index_bits(_, _, _, _)
index_bits(kh, depth, i, idx) ==
    IF i >= depth
    THEN idx
    ELSE index_bits(kh, depth, i + 1, 2 * idx + bit_at(kh, i))

\* Mutant: the index is read from the bits 1..depth of the digest.
leaf_index_skip_first_bit(t, kh) == index_bits(kh, t.depth + 1, 1, 0)

leaf_index_from_key_hash(t, kh) == index_bits(kh, t.depth, 0, 0)

\* Mutant: the node's own index is read instead of its sibling's.
xor1_own_index(idx) == idx

\* idx ^ 1
xor1(idx) == IF idx % 2 = 0 THEN idx + 1 ELSE idx - 1

\* Mutant: an unmaterialized sibling reads as the empty leaf at every level.
sibling_or_empty_leaf(t, level, sib_idx) ==
    LET node == get_node(t.storage, level, sib_idx)
    IN IF IsSome(node) THEN Unwrap(node) ELSE t.empty[1]

\* Mutant: the sibling is taken as empty[level] without reading the store.
sibling_always_empty(t, level, sib_idx) == t.empty[level + 1]

\* The sibling read by insert and get_proof: the stored node or empty[level].
sibling_or_empty(t, level, sib_idx) ==
    LET node == get_node(t.storage, level, sib_idx)
    IN IF IsSome(node) THEN Unwrap(node) ELSE t.empty[level + 1]

\* The loop of insert, from `level` upwards: the updates collected.
RECURSIVE insert_loop(_, _, _, _, _)
insert_loop(t, level, idx, cur, updates) ==
    IF level >= t.depth
    THEN updates
    ELSE LET sib == sibling_or_empty(t, level, xor1(idx))
             parent == IF idx % 2 = 0
                       THEN hash_internal(cur, sib)
                       ELSE hash_internal(sib, cur)
         IN insert_loop(t, level + 1, idx \div 2, parent,
                Append(updates, [level |-> level + 1, index |-> idx \div 2,
                                 hash |-> parent]))

\* SparseMerkleTree::insert
SMT_insert(t, key, value) ==
    LET kh == keccak(key)
        leaf_hash == hash_leaf(kh, value)
        idx == leaf_index_from_key_hash(t, kh)
        updates == insert_loop(t, 0, idx, leaf_hash,
                       <<[level |-> 0, index |-> idx, hash |-> leaf_hash]>>)
    IN [smt |-> [t EXCEPT !.storage = store_path_batch(@, updates)],
        ret |-> "Ok"]

\* SparseMerkleTree::root
SMT_root(t) ==
    LET node == get_node(t.storage, t.depth, 0)
    IN IF IsSome(node) THEN Unwrap(node) ELSE t.empty[t.depth + 1]

\* The loop of get_proof.
RECURSIVE SMT_proof_loop(_, _, _, _)
SMT_proof_loop(t, level, idx, siblings) ==
    IF level >= t.depth
    THEN siblings
    ELSE SMT_proof_loop(t, level + 1, idx \div 2,
             Append(siblings, hex_encode(sibling_or_empty(t, level, xor1(idx)))))

\* SparseMerkleTree::get_proof
SMT_get_proof(t, key) ==
    [siblings |-> SMT_proof_loop(t, 0, leaf_index_from_key_hash(t, keccak(key)), <<>>)]

\* The loop of verify_membership and verify_non_membership: Some(the hash
\* recomputed), or None when a sibling is not hexadecimal.
RECURSIVE SMT_fold_proof(_, _, _, _)
SMT_fold_proof(siblings, i, cur, idx) ==
    IF i > Len(siblings)
    THEN Some(cur)
    ELSE LET sib == hex_decode(siblings[i])
         IN IF ~ IsSome(sib)
            THEN None
            ELSE SMT_fold_proof(siblings, i + 1,
                     IF idx % 2 = 0
                     THEN hash_internal(cur, Unwrap(sib))
                     ELSE hash_internal(Unwrap(sib), cur),
                     idx \div 2)

\* SparseMerkleTree::verify_membership
verify_membership(t, key, value, proof, root) ==
    IF Len(proof.siblings) # t.depth
    THEN FALSE
    ELSE LET kh == keccak(key)
             cur == SMT_fold_proof(proof.siblings, 1, hash_leaf(kh, value),
                                   leaf_index_from_key_hash(t, kh))
         IN IsSome(cur) /\ Unwrap(cur) = root

\* SparseMerkleTree::verify_non_membership
verify_non_membership(t, key, proof, root) ==
    IF Len(proof.siblings) # t.depth
    THEN FALSE
    ELSE LET kh == keccak(key)
             cur == SMT_fold_proof(proof.siblings, 1, t.empty[1],
                                   leaf_index_from_key_hash(t, kh))
         IN IsSome(cur) /\ Unwrap(cur) = root

(***************************************************************************)
(* The small specification: a client drives an IncrementalMerkleTree and a *)
(* LmdbMerkleTree on a fresh store with the same calls.                    *)
(***************************************************************************)
LeafValues == {<<Byte(1)>>, <<Byte(2)>>, <<Byte(1), Byte(1)>>}

Batches == UNION {[1..k -> LeafValues] : k \in 0..MaxBatch}

\* No SparseMerkleTree has been constructed.
SMT_idle == [depth |-> 0, empty |-> <<>>, storage |-> LmdbStorage_new]

Init ==
    /\ tree = IMT_new
    /\ storage = LmdbStorage_new
    /\ lmdb = Lmdb_new(LmdbStorage_new)
    /\ smt = SMT_idle
    /\ inserted = <<>>
    /\ call = [op |-> "new", arg |-> <<>>, imt |-> "Ok", lmdb |-> "Ok"]

AddLeaf(leaf) ==
    LET m == IMT_add_leaf(tree, leaf)
        p == Lmdb_add_leaf(storage, lmdb, leaf)
    IN /\ tree' = m.tree
       /\ storage' = p.storage
       /\ call' = [op |-> "add_leaf", arg |-> <<leaf>>,
                   imt |-> m.ret, lmdb |-> p.ret]
       /\ UNCHANGED <<lmdb, smt, inserted>>

AddLeaves(leaves) ==
    LET m == IMT_add_leaves(tree, leaves)
        p == Lmdb_add_leaves(storage, lmdb, leaves)
    IN /\ tree' = m.tree
       /\ storage' = p.storage
       /\ call' = [op |-> "add_leaves", arg |-> leaves,
                   imt |-> m.ret, lmdb |-> p.ret]
       /\ UNCHANGED <<lmdb, smt, inserted>>

Root ==
    LET m == IMT_root(tree)
    IN /\ tree' = m.tree
       /\ call' = [op |-> "root", arg |-> <<>>,
                   imt |-> m.ret, lmdb |-> Lmdb_root(storage)]
       /\ UNCHANGED <<storage, lmdb, smt, inserted>>

GetProof(index) ==
    LET m == IMT_get_proof(tree, index)
    IN /\ tree' = m.tree
       /\ call' = [op |-> "get_proof", arg |-> index,
                   imt |-> m.ret, lmdb |-> Lmdb_get_proof(storage, index)]
       /\ UNCHANGED <<storage, lmdb, smt, inserted>>

\* Drop the LmdbMerkleTree and open a new one on the same path.
Reopen ==
    /\ lmdb' = Lmdb_new(storage)
    /\ call' = [op |-> "reopen", arg |-> <<>>, imt |-> "Ok", lmdb |-> "Ok"]
    /\ UNCHANGED <<tree, storage, smt, inserted>>

Next ==
    \/ \E leaf \in LeafValues :
           Len(tree.leaves) < MaxN /\ AddLeaf(leaf)
    \/ \E leaves \in Batches :
           Len(tree.leaves) + Len(leaves) <= MaxN /\ AddLeaves(leaves)
    \/ Root
    \/ \E index \in 0..MaxN : GetProof(index)
    \/ Reopen

Spec == Init /\ [][Next]_vars

(***************************************************************************)
(* Reference root of a leaf sequence: level 0 is the leaves, every further *)
(* level the Keccak-256 of adjacent pairs, the last element paired with    *)
(* itself on an odd size, until one element is left.                       *)
(***************************************************************************)
RefPairs(level) ==
    Vec([c \in 1..((Len(level) + 1) \div 2) |->
            Keccak256(level[2 * c - 1]
                      \o (IF 2 * c <= Len(level)
                          THEN level[2 * c] ELSE level[2 * c - 1]))])

RECURSIVE RefRoot(_)
RefRoot(level) == IF Len(level) <= 1 THEN level[1] ELSE RefRoot(RefPairs(level))

LeafSeqs == UNION {[1..k -> LeafValues] : k \in 0..MaxN}

\* A fresh tree of each variant holding the leaf sequence `leaves`.
IMT_of(leaves) == IMT_add_leaves(IMT_new, leaves).tree

Lmdb_of(leaves) ==
    Lmdb_add_leaves(LmdbStorage_new, Lmdb_new(LmdbStorage_new), leaves).storage

(***************************************************************************)
(* Claims on the incremental trees, small specification.                   *)
(***************************************************************************)
\* C1: in-memory tree with n >= 1 leaves: for every index i < n the proof
\* get_proof(i) returns verifies leaf i against root(), whichever of root()
\* and get_proof(i) is called first.
C1_RoundTrip ==
    \A i \in 0..(Len(tree.leaves) - 1) :
        LET r == IMT_root(tree)
            p == IMT_get_proof(r.tree, i)
            q == IMT_get_proof(tree, i)
            u == IMT_root(q.tree)
        IN /\ IsSome(r.ret) /\ IsSome(p.ret)
           /\ IMT_verify_proof(tree.leaves[i + 1], Unwrap(p.ret), Unwrap(r.ret))
           /\ IsSome(u.ret) /\ IsSome(q.ret)
           /\ IMT_verify_proof(tree.leaves[i + 1], Unwrap(q.ret), Unwrap(u.ret))

C1_Witness ==
    /\ call.op = "get_proof"
    /\ Len(tree.leaves) = 3
    /\ call.arg = 2
    /\ IsSome(call.imt)
    /\ Len(Unwrap(call.imt).siblings) = 2
    /\ IMT_verify_proof(tree.leaves[3], Unwrap(call.imt),
                        Unwrap(IMT_root(tree).ret))

\* C3 (as claimed): a tree of either variant holding a leaf sequence other
\* than the current one has a root other than the current root.
C3_RootCommits ==
    \A other \in LeafSeqs :
        other # tree.leaves =>
            /\ IMT_root(IMT_of(other)).ret # IMT_root(tree).ret
            /\ Lmdb_root(Lmdb_of(other)) # Lmdb_root(storage)

\* C4: after every step of the same calls the persistent tree on a fresh
\* store and the in-memory tree have the same num_leaves() and root().
C4_SameRoot ==
    /\ Lmdb_num_leaves(storage) = IMT_num_leaves(tree)
    /\ Lmdb_root(storage) = IMT_root(tree).ret

C4_Witness ==
    /\ call.op = "add_leaves"
    /\ call.imt = "Ok" /\ call.lmdb = "Ok"
    /\ Len(tree.leaves) = 3
    /\ ~ tree.cache_valid
    /\ IsSome(Lmdb_root(storage))
    /\ Lmdb_root(storage) = IMT_root(tree).ret

\* C5: in-memory root() is None on an empty tree and otherwise the reference
\* root of the current leaves, in every reachable cache state; a second
\* root(), also after a get_proof, returns the same.
C5_RootIsReference ==
    /\ IMT_root(tree).ret =
           (IF tree.leaves = <<>> THEN None ELSE Some(RefRoot(tree.leaves)))
    /\ IMT_root(IMT_root(tree).tree).ret = IMT_root(tree).ret
    /\ \A i \in 0..MaxN :
           IMT_root(IMT_get_proof(tree, i).tree).ret = IMT_root(tree).ret

C5_Witness ==
    /\ call.op = "root"
    /\ Len(tree.leaves) = 3
    /\ tree.cache_valid
    /\ call.imt = Some(RefRoot(tree.leaves))
    /\ IMT_root(tree).ret = call.imt

LargeLeafValues == {<<Byte(1)>>, <<Byte(2)>>}

LargeLeaves == Vec([i \in 1..LargeBatch |-> <<Byte(1)>>])

LargeBatches == UNION {[1..k -> LargeLeafValues] : k \in 1..MaxBatch}

\* Leaves of the tree that did not come with the large batch.
TailCount == IF Len(tree.leaves) >= LargeBatch
             THEN Len(tree.leaves) - LargeBatch ELSE Len(tree.leaves)

NextLarge ==
    \/ \E leaf \in LargeLeafValues :
           TailCount < LargeTail /\ AddLeaf(leaf)
    \/ \E leaves \in LargeBatches :
           TailCount + Len(leaves) <= LargeTail /\ AddLeaves(leaves)
    \/ Len(tree.leaves) < LargeBatch /\ AddLeaves(LargeLeaves)
    \/ Reopen

SpecLarge == Init /\ [][NextLarge]_vars

\* C2 (as claimed): persistent tree with n >= 1 leaves: for every index
\* i < n, get_proof(i) is a proof and verify_proof(leaf i, proof, root(), i)
\* is true.
C2_PersistentRoundTrip ==
    \A i \in 0..(Lmdb_num_leaves(storage) - 1) :
        LET proof == Lmdb_get_proof(storage, i)
            root == Lmdb_root(storage)
        IN /\ IsSome(proof) /\ IsSome(root)
           /\ Lmdb_verify_proof(get_all_leaves(storage)[i + 1],
                                Unwrap(proof), Unwrap(root), i)

\* C9 (as claimed): dropping the persistent tree and opening a new one on
\* the same path keeps num_leaves() and root(), every get_proof(i) with
\* i < num_leaves() is a proof that verifies against that root, and the next
\* append is stored at index num_leaves().
C9_Persistence ==
    [][/\ call'.op = "reopen" =>
              /\ Lmdb_num_leaves(storage') = Lmdb_num_leaves(storage)
              /\ Lmdb_root(storage') = Lmdb_root(storage)
              /\ lmdb'.max_leaves = lmdb.max_leaves
              /\ \A i \in 0..(Lmdb_num_leaves(storage') - 1) :
                     LET proof == Lmdb_get_proof(storage', i)
                     IN /\ IsSome(proof)
                        /\ Lmdb_verify_proof(
                               get_all_leaves(storage')[i + 1], Unwrap(proof),
                               Unwrap(Lmdb_root(storage')), i)
       /\ (call.op = "reopen" /\ call'.op = "add_leaf" /\ call'.lmdb = "Ok") =>
              /\ Lmdb_num_leaves(storage') = Lmdb_num_leaves(storage) + 1
              /\ get_all_leaves(storage') =
                     Append(get_all_leaves(storage), call'.arg[1])
      ]_vars

(***************************************************************************)
(* The capacity specification: the same client on a store whose metadata   *)
(* was written with a small max_leaves (LmdbStorage::store_metadata), and  *)
(* with add_leaves batches that fill the in-memory tree up to MAX_LEAVES.  *)
(***************************************************************************)
PersistedMaxLeaves == {CapSmall, CapSmall + 1}

InitCapacity ==
    /\ tree = IMT_new
    /\ \E max \in PersistedMaxLeaves :
           storage = store_metadata(LmdbStorage_new,
                         [num_leaves |-> 0, max_leaves |-> to_le_bytes(max)])
    /\ lmdb = Lmdb_new(storage)
    /\ smt = SMT_idle
    /\ inserted = <<>>
    /\ call = [op |-> "new", arg |-> <<>>, imt |-> "Ok", lmdb |-> "Ok"]

\* A batch that leaves room for `room` more leaves in the in-memory tree.
FillLeaves(room) ==
    Vec([i \in 1..(MAX_LEAVES - Len(tree.leaves) - room) |-> <<Byte(1)>>])

\* The in-memory tree is nearly empty or nearly full after n leaves.
AtAnEdge(n) == n <= CapSmall + 1 \/ n >= MAX_LEAVES - MaxBatch

\* The leaves offered here: capacity does not depend on their bytes, the
\* order of a batch shows in its distinct leaves.
CapLeafValues == {<<Byte(1)>>}
CapBatches == {Vec([j \in 1..k |-> <<Byte(j)>>]) : k \in 0..MaxBatch}

NextCapacity ==
    \/ \E leaf \in CapLeafValues :
           AtAnEdge(Len(tree.leaves) + 1) /\ AddLeaf(leaf)
    \/ \E leaves \in CapBatches :
           AtAnEdge(Len(tree.leaves) + Len(leaves)) /\ AddLeaves(leaves)
    \/ \E room \in 0..MaxBatch :
           Len(tree.leaves) = 0 /\ AddLeaves(FillLeaves(room))
    \/ Root

SpecCapacity == InitCapacity /\ [][NextCapacity]_vars

\* The indices whose proofs are read: the first and the last leaf, and the
\* first index out of range.
ProbedIndices(n) == {0, n} \cup (IF n > 0 THEN {n - 1} ELSE {})

\* What a client reads from the in-memory tree: num_leaves(), the leaves,
\* root() and get_proof(i) at the probed indices.
IMT_view(t) ==
    LET r == IMT_root(t)
    IN [num_leaves |-> IMT_num_leaves(t), leaves |-> t.leaves, root |-> r.ret,
        proofs |-> [i \in ProbedIndices(Len(t.leaves)) |->
                       IMT_get_proof(r.tree, i).ret]]

\* The same for the persistent tree.
Lmdb_view(s) ==
    [num_leaves |-> Lmdb_num_leaves(s), leaves |-> get_all_leaves(s),
     root |-> Lmdb_root(s),
     proofs |-> [i \in ProbedIndices(Lmdb_num_leaves(s)) |->
                    Lmdb_get_proof(s, i)]]

\* C7: add_leaf on a tree whose num_leaves() equals max_leaves returns an
\* error and leaves the tree unchanged (both variants): every field of the
\* tree and every database of the store is as before, and so are
\* num_leaves(), the leaves, root() and the proofs read afterwards.
C7_AddLeafAtCapacity ==
    [][call'.op = "add_leaf" =>
           /\ IMT_num_leaves(tree) = MAX_LEAVES =>
                  /\ call'.imt = "Err"
                  /\ tree' = tree
                  /\ IMT_view(tree') = IMT_view(tree)
           /\ to_le_bytes(Lmdb_num_leaves(storage)) = lmdb.max_leaves =>
                  /\ call'.lmdb = "Err"
                  /\ storage' = storage
                  /\ Lmdb_view(storage') = Lmdb_view(storage)
      ]_vars

C7_Witness ==
    /\ call.op = "add_leaf"
    /\ call.imt = "Err"
    /\ call.lmdb = "Err"
    /\ IMT_num_leaves(tree) = MAX_LEAVES
    /\ to_le_bytes(Lmdb_num_leaves(storage)) = lmdb.max_leaves
    /\ Lmdb_num_leaves(storage) > 0

\* C8: add_leaves appends all or none (both variants): when num_leaves()
\* plus the batch length exceeds max_leaves it returns an error and the
\* leaves, num_leaves() and root() stay; otherwise the batch is appended in
\* order at the indices num_leaves() .. num_leaves() + len - 1.
C8_AddLeavesAllOrNone ==
    [][call'.op = "add_leaves" =>
           LET batch == call'.arg
               n == Lmdb_num_leaves(storage)
           IN /\ IF Len(tree.leaves) + Len(batch) > MAX_LEAVES
                 THEN /\ call'.imt = "Err"
                      /\ tree'.leaves = tree.leaves
                      /\ IMT_num_leaves(tree') = IMT_num_leaves(tree)
                      /\ IMT_root(tree').ret = IMT_root(tree).ret
                 ELSE /\ call'.imt = "Ok"
                      /\ IMT_num_leaves(tree') = Len(tree.leaves) + Len(batch)
                      /\ SubSeq(tree'.leaves, 1, Len(tree.leaves)) = tree.leaves
                      /\ \A j \in 1..Len(batch) :
                             tree'.leaves[Len(tree.leaves) + j] = batch[j]
              /\ IF u64_less(lmdb.max_leaves, to_le_bytes(n + Len(batch)))
                 THEN /\ call'.lmdb = "Err"
                      /\ get_all_leaves(storage') = get_all_leaves(storage)
                      /\ Lmdb_num_leaves(storage') = n
                      /\ Lmdb_root(storage') = Lmdb_root(storage)
                 ELSE /\ call'.lmdb = "Ok"
                      /\ Lmdb_num_leaves(storage') = n + Len(batch)
                      /\ Len(storage'.leaves_db) = n + Len(batch)
                      /\ \A j \in 1..n :
                             txn_get(storage'.leaves_db, to_be_bytes(j - 1))
                                 = txn_get(storage.leaves_db, to_be_bytes(j - 1))
                      /\ \A j \in 1..Len(batch) :
                             txn_get(storage'.leaves_db, to_be_bytes(n + j - 1))
                                 = Some(batch[j])
      ]_vars

C8_Witness ==
    /\ call.op = "add_leaves"
    /\ Len(call.arg) = 2
    /\ call.arg[1] # call.arg[2]
    /\ call.imt = "Err"
    /\ call.lmdb = "Ok"
    /\ IMT_num_leaves(tree) + Len(call.arg) > MAX_LEAVES
    /\ get_all_leaves(storage) = call.arg

(***************************************************************************)
(* The sparse-tree specification: a client constructs a SparseMerkleTree   *)
(* of some depth on a fresh store and calls insert, root and get_proof.    *)
(***************************************************************************)
\* Keys whose digests start 11110010, 11110011, 1110.. and 0000..: the first
\* two share their first seven bits, the first and third exactly three, and
\* the last differs from the others in its first bit.
SMT_Keys == {<<Byte(2)>>, <<Byte(4)>>, <<Byte(7)>>, <<Byte(10)>>}
SMT_Values == {<<Byte(1)>>, <<Byte(2)>>}

InitSMT ==
    /\ tree = IMT_new
    /\ storage = LmdbStorage_new
    /\ lmdb = Lmdb_new(LmdbStorage_new)
    /\ \E depth \in 1..MaxDepth : smt = SMT_new(depth)
    /\ inserted = <<>>
    /\ call = [op |-> "new", arg |-> <<>>, ret |-> "Ok"]

Insert(key, value) ==
    LET r == SMT_insert(smt, key, value)
    IN /\ smt' = r.smt
       /\ inserted' = Append(inserted, [key |-> key, value |-> value])
       /\ call' = [op |-> "insert", arg |-> <<key, value>>, ret |-> r.ret]
       /\ UNCHANGED <<tree, storage, lmdb>>

SMTRoot ==
    /\ call' = [op |-> "root", arg |-> <<>>, ret |-> SMT_root(smt)]
    /\ UNCHANGED <<tree, storage, lmdb, smt, inserted>>

SMTGetProof(key) ==
    /\ call' = [op |-> "get_proof", arg |-> key, ret |-> SMT_get_proof(smt, key)]
    /\ UNCHANGED <<tree, storage, lmdb, smt, inserted>>

NextSMT ==
    \/ \E key \in SMT_Keys, value \in SMT_Values :
           Len(inserted) < MaxInserts /\ Insert(key, value)
    \/ SMTRoot
    \/ \E key \in SMT_Keys : SMTGetProof(key)

SpecSMT == InitSMT /\ [][NextSMT]_vars

\* C10: after any sequence of insert calls, every pair (k, v) that was
\* inserted passes verify_membership(k, v, get_proof(k), root()), the pairs
\* of keys that share their leaf index with another inserted key and of keys
\* later re-inserted with another value included.
C10_MembershipRoundTrip ==
    \A i \in 1..Len(inserted) :
        verify_membership(smt, inserted[i].key, inserted[i].value,
                          SMT_get_proof(smt, inserted[i].key), SMT_root(smt))

\* C11: after any sequence of insert calls, every key that was never
\* inserted passes verify_non_membership(k, get_proof(k), root()), a key
\* whose leaf index is that of an inserted key included.
C11_NonMembership ==
    \A k \in SMT_Keys :
        (\A i \in 1..Len(inserted) : inserted[i].key # k)
            => verify_non_membership(smt, k, SMT_get_proof(smt, k), SMT_root(smt))

\* C12: insert(k, v) called again right after insert(k, v) leaves root() and
\* every stored node (level, index) unchanged.
C12_InsertIdempotent ==
    [][(call.op = "insert" /\ call'.op = "insert" /\ call'.arg = call.arg)
           => /\ SMT_root(smt') = SMT_root(smt)
              /\ smt'.storage.cache_db = smt.storage.cache_db
      ]_vars

C12_Witness ==
    /\ call.op = "insert"
    /\ Len(inserted) >= 3
    /\ inserted[Len(inserted)] = inserted[Len(inserted) - 1]
    /\ inserted[1].key # inserted[Len(inserted)].key
    /\ smt.depth > 1

\* The leaf index of a key in the tree.
LeafIndex(key) == leaf_index_from_key_hash(smt, keccak(key))

\* C13: insert(k, v2) after an earlier insert(k, v1) with v1 # v2 makes
\* (k, v2) verify and (k, v1) fail against the new root, changes the leaf
\* node of no other inserted key, and removes no stored node.
C13_Overwrite ==
    [][call'.op = "insert" =>
           LET k == call'.arg[1]
               v2 == call'.arg[2]
               proof == SMT_get_proof(smt', k)
               root == SMT_root(smt')
           IN (\E i \in 1..Len(inserted) :
                   inserted[i].key = k /\ inserted[i].value # v2)
              => /\ verify_membership(smt', k, v2, proof, root)
                 /\ \A i \in 1..Len(inserted) :
                        (inserted[i].key = k /\ inserted[i].value # v2)
                            => ~ verify_membership(smt', k, inserted[i].value,
                                                   proof, root)
                 /\ \A i \in 1..Len(inserted) :
                        inserted[i].key # k
                            => get_node(smt'.storage, 0, LeafIndex(inserted[i].key))
                                 = get_node(smt.storage, 0, LeafIndex(inserted[i].key))
                 /\ \A e \in 1..Len(smt.storage.cache_db) :
                        IsSome(txn_get(smt'.storage.cache_db,
                                       smt.storage.cache_db[e].key))
      ]_vars

\* The index of the ancestor at `level` of leaf index idx, XOR 1.
SiblingIndex(idx, level) ==
    LET own == idx \div (2 ^ level)
    IN IF own % 2 = 0 THEN own + 1 ELSE own - 1

\* A proof with its last sibling dropped, and one with a sibling repeated.
WrongLengthProofs(proof) ==
    { [siblings |-> SubSeq(proof.siblings, 1, Len(proof.siblings) - 1)],
      [siblings |-> Append(proof.siblings, proof.siblings[1])] }

\* C14: get_proof(key) returns exactly D siblings, the one at level l being
\* the stored node (l, index_l XOR 1) or empty[l] when it was never written;
\* on a never-written tree root() is empty[D] and every sibling is empty[l];
\* both verifiers reject a proof whose length is not D.
C14_ProofShape ==
    \A key \in SMT_Keys :
        LET proof == SMT_get_proof(smt, key)
        IN /\ Len(proof.siblings) = smt.depth
           /\ \A l \in 0..(smt.depth - 1) :
                  LET node == txn_get(smt.storage.cache_db,
                                  node_key(l, SiblingIndex(LeafIndex(key), l)))
                  IN hex_decode(proof.siblings[l + 1])
                         = Some(IF node # None THEN node[1] ELSE smt.empty[l + 1])
           /\ inserted = <<>> =>
                  /\ SMT_root(smt) = smt.empty[smt.depth + 1]
                  /\ \A l \in 0..(smt.depth - 1) :
                         proof.siblings[l + 1] = hex_encode(smt.empty[l + 1])
           /\ \A wrong \in WrongLengthProofs(proof), value \in SMT_Values :
                  /\ ~ verify_membership(smt, key, value, wrong, SMT_root(smt))
                  /\ ~ verify_non_membership(smt, key, wrong, SMT_root(smt))

C14_Witness ==
    /\ smt.depth = 3
    /\ Len(inserted) = 2
    /\ LeafIndex(inserted[1].key) # LeafIndex(inserted[2].key)
    /\ call.op = "get_proof"
    /\ \E l \in 1..3 : call.ret.siblings[l] # hex_encode(smt.empty[l])
    /\ \E l \in 1..3 : call.ret.siblings[l] = hex_encode(smt.empty[l])

\* ceil(log2 n) for n >= 1.
RECURSIVE CeilLog2(_)
CeilLog2(n) == IF n <= 1 THEN 0 ELSE 1 + CeilLog2((n + 1) \div 2)

\* C15: for both variants and every n >= 1, get_proof(i) has exactly
\* ceil(log2 n) siblings for every i < n, none for a single leaf, whose
\* root() is the leaf itself.
C15_ProofLength ==
    LET n == Len(tree.leaves)
        m == Lmdb_num_leaves(storage)
        cached == IMT_root(tree).tree
    IN /\ \A i \in 0..(n - 1) :
              LET proof == IMT_get_proof(cached, i).ret
              IN /\ IsSome(proof)
                 /\ Len(Unwrap(proof).siblings) = CeilLog2(n)
       /\ n = 1 => IMT_root(tree).ret = Some(tree.leaves[1])
       /\ \A i \in 0..(m - 1) :
              LET proof == Lmdb_get_proof(storage, i)
              IN /\ IsSome(proof)
                 /\ Len(Unwrap(proof).siblings) = CeilLog2(m)
       /\ m = 1 => Lmdb_root(storage) = Some(get_all_leaves(storage)[1])

\* The values a changed input of verify_proof is drawn from.
AltIndices == 0..(2 * MaxN + 1)
AltBytes == LeafValues \cup {Lmdb_hash_pair(a, b) : a, b \in LeafValues}

\* `proof` with sibling k replaced by the hex encoding of `bytes`.
WithSibling(proof, k, bytes) ==
    [proof EXCEPT !.siblings[k] = hex_encode(bytes)]

\* C16: from an accepted verify_proof(leaf[i], get_proof(i), root(), i) of
\* the persistent tree, changing exactly one input (the leaf, the index, one
\* sibling or the root) makes verify_proof return false.
C16_VerifierSensitivity ==
    \A i \in 0..(Lmdb_num_leaves(storage) - 1) :
        LET leaf == get_all_leaves(storage)[i + 1]
            proof == Unwrap(Lmdb_get_proof(storage, i))
            root == Unwrap(Lmdb_root(storage))
        IN Lmdb_verify_proof(leaf, proof, root, i) =>
               /\ \A x \in AltBytes \ {leaf} :
                      ~ Lmdb_verify_proof(x, proof, root, i)
               /\ \A j \in AltIndices \ {i} :
                      ~ Lmdb_verify_proof(leaf, proof, root, j)
               /\ \A k \in 1..Len(proof.siblings) :
                      \A x \in AltBytes :
                          hex_encode(x) # proof.siblings[k] =>
                              ~ Lmdb_verify_proof(leaf, WithSibling(proof, k, x),
                                                  root, i)
               /\ \A x \in AltBytes \ {root} :
                      ~ Lmdb_verify_proof(leaf, proof, x, i)

\* C17: for both variants, a successful add_leaf on a non-empty tree, and a
\* successful add_leaves of one or more leaves, changes root().
C17_RootChangesOnAppend ==
    [][((call'.op = "add_leaf" \/ (call'.op = "add_leaves" /\ call'.arg # <<>>))
            /\ call'.imt = "Ok" /\ call'.lmdb = "Ok"
            /\ Len(tree.leaves) >= 1 /\ Lmdb_num_leaves(storage) >= 1)
           => /\ IMT_root(tree').ret # IMT_root(tree).ret
              /\ Lmdb_root(storage') # Lmdb_root(storage)
      ]_vars

(***************************************************************************)
(* The stepwise specifications: add_leaf and add_leaves of LmdbMerkleTree  *)
(* taken one storage call at a time.  Each storage call is one LMDB        *)
(* transaction (the environment is opened without NO_SYNC, so a committed  *)
(* transaction survives a crash); call.pc names the storage call the       *)
(* running method makes next, call.before is the store when it started and *)
(* call.log lists the storage calls it has made.                           *)
(***************************************************************************)
StepBatches == {b \in Batches : \A i \in 1..Len(b) : b[i] \in LargeLeafValues}

InitSteps ==
    /\ tree = IMT_new
    /\ storage = LmdbStorage_new
    /\ lmdb = Lmdb_new(LmdbStorage_new)
    /\ smt = SMT_idle
    /\ inserted = <<>>
    /\ call = [op |-> "new", arg |-> <<>>, pc |-> "idle", ret |-> "Ok",
               before |-> LmdbStorage_new, current_count |-> 0,
               cache_levels |-> <<>>, num |-> 0, log |-> <<>>]

\* The running method returns `ret`.
Return(ret) == call' = [call EXCEPT !.pc = "idle", !.ret = ret]

\* The running method made the storage call `name`, which succeeded,
\* and goes on to `pc`.
Called(name, pc) ==
    [call EXCEPT !.pc = pc, !.log = Append(@, [op |-> name, ok |-> TRUE])]

\* The storage call `name` failed: the `?` (or map_err) returns the error.
Failed(name) ==
    /\ call' = [call EXCEPT !.pc = "idle", !.ret = "Err",
                            !.log = Append(@, [op |-> name, ok |-> FALSE])]
    /\ UNCHANGED storage

\* A client calls add_leaf or add_leaves.
BeginCall(op, arg) ==
    /\ call.pc = "idle"
    /\ call' = [op |-> op, arg |-> arg, pc |-> "num_leaves", ret |-> "-",
                before |-> storage, current_count |-> 0,
                cache_levels |-> <<>>, num |-> 0, log |-> <<>>]
    /\ UNCHANGED <<tree, storage, lmdb, smt, inserted>>

\* let current_count = self.num_leaves(); and the capacity test.
ReadCount ==
    /\ call.pc = "num_leaves"
    /\ LET current_count == Lmdb_num_leaves(storage)
           exceeded == IF call.op = "add_leaf"
                       THEN ~ u64_less(to_le_bytes(current_count), lmdb.max_leaves)
                       ELSE u64_less(lmdb.max_leaves,
                                     to_le_bytes(current_count + Len(call.arg)))
       IN IF exceeded
          THEN Return("Err")
          ELSE call' = [call EXCEPT !.pc = "store_leaves",
                                    !.current_count = current_count]
    /\ UNCHANGED <<tree, storage, lmdb, smt, inserted>>

\* self.storage.store_leaf(current_count, &leaf) or append_leaves.
StoreLeaves(ok) ==
    /\ call.pc = "store_leaves"
    /\ IF ok
       THEN IF call.op = "add_leaf"
            THEN /\ storage' = store_leaf(storage, call.current_count, call.arg[1])
                 /\ call' = Called("store_leaf", "recompute")
            ELSE /\ storage' = append_leaves(storage, call.current_count, call.arg)
                 /\ call' = Called("append_leaves", "recompute")
       ELSE Failed(IF call.op = "add_leaf" THEN "store_leaf" ELSE "append_leaves")
    /\ UNCHANGED <<tree, lmdb, smt, inserted>>

\* recompute_and_store_tree up to its first write: get_all_leaves, then
\* clear_cache on an empty store, else the levels and store_cache_batch.
Recompute(ok) ==
    /\ call.pc = "recompute"
    /\ LET leaves == get_all_leaves(storage)
           r == Lmdb_compute_levels(<<leaves>>, 0)
       IN IF leaves = <<>>
          THEN IF ok
               THEN /\ storage' = clear_cache(storage)
                    /\ call' = Called("clear_cache", "store_metadata_empty")
               ELSE Failed("clear_cache")
          ELSE IF r.returned
               THEN Return("Err") /\ UNCHANGED storage
               ELSE IF ok
                    THEN /\ storage' = store_cache_batch(storage, r.cache_levels)
                         /\ call' = [Called("store_cache_batch", "store_root")
                                        EXCEPT !.cache_levels = r.cache_levels,
                                               !.num = Len(leaves)]
                    ELSE Failed("store_cache_batch")
    /\ UNCHANGED <<tree, lmdb, smt, inserted>>

\* The empty branch: store_metadata, then `return Ok(())`.
StoreMetadataEmpty(ok) ==
    /\ call.pc = "store_metadata_empty"
    /\ IF ok
       THEN /\ storage' = store_metadata(storage,
                              [num_leaves |-> 0, max_leaves |-> lmdb.max_leaves])
            /\ call' = [Called("store_metadata", "idle") EXCEPT !.ret = "Ok"]
       ELSE Failed("store_metadata")
    /\ UNCHANGED <<tree, lmdb, smt, inserted>>

\* self.storage.store_root(root) for the first hash of the last level.
StoreRoot(ok) ==
    /\ call.pc = "store_root"
    /\ LET root_level == call.cache_levels[Len(call.cache_levels)]
       IN IF ok
          THEN /\ storage' = IF Len(root_level) >= 1
                             THEN store_root(storage, root_level[1])
                             ELSE storage
               /\ call' = Called("store_root", "store_metadata")
          ELSE Failed("store_root")
    /\ UNCHANGED <<tree, lmdb, smt, inserted>>

\* self.storage.store_metadata(&metadata) with num_leaves: leaves.len().
StoreMetadata(ok) ==
    /\ call.pc = "store_metadata"
    /\ IF ok
       THEN /\ storage' = store_metadata(storage,
                              [num_leaves |-> call.num,
                               max_leaves |-> lmdb.max_leaves])
            /\ call' = Called("store_metadata", "sync")
       ELSE Failed("store_metadata")
    /\ UNCHANGED <<tree, lmdb, smt, inserted>>

\* self.storage.sync()?; Ok(())
Sync(ok) ==
    /\ call.pc = "sync"
    /\ IF ok
       THEN /\ call' = [Called("sync", "idle") EXCEPT !.ret = "Ok"]
            /\ UNCHANGED storage
       ELSE Failed("sync")
    /\ UNCHANGED <<tree, lmdb, smt, inserted>>

\* The process stops while a method is running.
Crash ==
    /\ call.pc \notin {"idle", "down"}
    /\ call' = [call EXCEPT !.pc = "down"]
    /\ UNCHANGED <<tree, storage, lmdb, smt, inserted>>

\* LmdbMerkleTree::new on the same path after a crash.
Recover ==
    /\ call.pc = "down"
    /\ lmdb' = Lmdb_new(storage)
    /\ call' = [call EXCEPT !.pc = "idle", !.ret = "reopened"]
    /\ UNCHANGED <<tree, storage, smt, inserted>>

\* The client's calls, within the bound on stored leaves.
Calls ==
    \/ \E leaf \in LargeLeafValues :
           Len(storage.leaves_db) < MaxN /\ BeginCall("add_leaf", <<leaf>>)
    \/ \E leaves \in StepBatches :
           Len(storage.leaves_db) + Len(leaves) <= MaxN
               /\ BeginCall("add_leaves", leaves)

\* The storage calls of the running method, each succeeding or not as `oks`
\* allows.
Steps(oks) ==
    \/ ReadCount
    \/ \E ok \in oks : StoreLeaves(ok)
    \/ \E ok \in oks : Recompute(ok)
    \/ \E ok \in oks : StoreMetadataEmpty(ok)
    \/ \E ok \in oks : StoreRoot(ok)
    \/ \E ok \in oks : StoreMetadata(ok)
    \/ \E ok \in oks : Sync(ok)

NextCrash == Calls \/ Steps({TRUE}) \/ Crash \/ Recover

SpecCrash == InitSteps /\ [][NextCrash]_vars

NextFail == Calls \/ Steps(BOOLEAN)

SpecFail == InitSteps /\ [][NextFail]_vars

(***************************************************************************)
(* Claims on the stepwise specifications.                                  *)
(***************************************************************************)
\* The store the running method leaves when every storage call succeeds and
\* nothing interrupts it.
PostMutation ==
    IF call.op = "add_leaf"
    THEN Lmdb_add_leaf(call.before, lmdb, call.arg[1]).storage
    ELSE Lmdb_add_leaves(call.before, lmdb, call.arg).storage

\* C18: crash atomicity of the persistent tree.  When the process stops
\* during add_leaf or add_leaves and the store is reopened, what a client
\* reads is what it read before the call or what it reads after the whole
\* call; num_leaves() is the number of stored leaves, root() is the root of
\* exactly those leaves, and get_proof(i) verifies against root() for every
\* i < num_leaves().
C18_CrashAtomicity ==
    (call.pc = "idle" /\ call.ret = "reopened") =>
        LET n == Lmdb_num_leaves(storage)
            leaves == get_all_leaves(storage)
            root == Lmdb_root(storage)
        IN /\ Lmdb_view(storage) \in {Lmdb_view(call.before),
                                      Lmdb_view(PostMutation)}
           /\ n = Len(leaves)
           /\ root = IF leaves = <<>> THEN None ELSE Some(RefRoot(leaves))
           /\ \A i \in 0..(n - 1) :
                  LET proof == Lmdb_get_proof(storage, i)
                  IN /\ IsSome(proof)
                     /\ IsSome(root)
                     /\ Lmdb_verify_proof(leaves[i + 1], Unwrap(proof),
                                          Unwrap(root), i)

\* C19: failure atomicity of the persistent tree.  Whenever add_leaf or
\* add_leaves returns an error, the four databases of the store (leaves,
\* cache levels, cached root, metadata) are as they were before the call.
C19_FailureAtomicity ==
    (call.pc = "idle" /\ call.ret = "Err") => storage = call.before

\* C20: durability before acknowledgement.  add_leaf and add_leaves return
\* Ok only after sync has been called after the last write of the call: the
\* last storage call of a call that returned Ok is a successful sync, and
\* no storage call before it is a sync.
C20_SyncBeforeOk ==
    (call.pc = "idle" /\ call.ret = "Ok"
        /\ call.op \in {"add_leaf", "add_leaves"}) =>
        /\ call.log # <<>>
        /\ call.log[Len(call.log)] = [op |-> "sync", ok |-> TRUE]
        /\ \A i \in 1..(Len(call.log) - 1) : call.log[i].op # "sync"

(***************************************************************************)
(* Seed scenarios and structural invariants.                               *)
(***************************************************************************)
\* C24 (as claimed): for a tree holding exactly three leaves a, b, c,
\* get_proof(2) yields exactly one sibling, equal to
\* hash_pair(hash_pair(a,b), hash_pair(a,b)), and verifying c at index 2
\* with it reconstructs root().
C24_SeedThreeLeaves_AsClaimed ==
    Len(tree.leaves) = 3 /\ Len(get_all_leaves(storage)) = 3 =>
        LET ab == Keccak256(tree.leaves[1] \o tree.leaves[2])
            m == IMT_get_proof(tree, 2)
            p == Lmdb_get_proof(storage, 2)
        IN /\ IsSome(m.ret) /\ IsSome(p)
           /\ Unwrap(m.ret).siblings = <<hex_encode(Keccak256(ab \o ab))>>
           /\ Unwrap(p).siblings = <<hex_encode(Keccak256(ab \o ab))>>
           /\ IMT_verify_proof(tree.leaves[3], Unwrap(m.ret),
                               Unwrap(IMT_root(m.tree).ret))
           /\ Lmdb_verify_proof(tree.leaves[3], Unwrap(p),
                                Unwrap(Lmdb_root(storage)), 2)

\* C24 (amended): for a tree holding exactly three leaves a, b, c,
\* get_proof(2) yields exactly two siblings, the leaf c itself (the odd last
\* node is its own sibling) and then hash_pair(a,b); the in-memory proof
\* gives the directions <<FALSE, FALSE>>; and verifying c at index 2 with it
\* reconstructs root(), which is hash_pair(hash_pair(a,b), hash_pair(c,c)).
C24_SeedThreeLeaves ==
    Len(tree.leaves) = 3 /\ Len(get_all_leaves(storage)) = 3 =>
        LET a == tree.leaves[1]
            b == tree.leaves[2]
            c == tree.leaves[3]
            ab == Keccak256(a \o b)
            cc == Keccak256(c \o c)
            m == IMT_get_proof(tree, 2)
            p == Lmdb_get_proof(storage, 2)
        IN /\ get_all_leaves(storage) = <<a, b, c>>
           /\ IsSome(m.ret) /\ IsSome(p)
           /\ Unwrap(m.ret).siblings = <<hex_encode(c), hex_encode(ab)>>
           /\ Unwrap(m.ret).directions = <<FALSE, FALSE>>
           /\ Unwrap(p).siblings = <<hex_encode(c), hex_encode(ab)>>
           /\ IMT_root(m.tree).ret = Some(Keccak256(ab \o cc))
           /\ Lmdb_root(storage) = Some(Keccak256(ab \o cc))
           /\ IMT_verify_proof(c, Unwrap(m.ret), Keccak256(ab \o cc))
           /\ Lmdb_verify_proof(c, Unwrap(p), Keccak256(ab \o cc), 2)

C24_Witness ==
    /\ call.op = "get_proof"
    /\ call.arg = 2
    /\ Len(tree.leaves) = 3
    /\ get_all_leaves(storage) = tree.leaves
    /\ Cardinality({tree.leaves[1], tree.leaves[2], tree.leaves[3]}) = 3
    /\ IsSome(call.imt) /\ IsSome(call.lmdb)
    /\ Len(Unwrap(call.imt).siblings) = 2
    /\ Len(Unwrap(call.lmdb).siblings) = 2

\* The levels stored under the keys level_0, level_1, ... up to the first
\* absent key.
RECURSIVE StoredLevelsFrom(_, _)
StoredLevelsFrom(s, level) ==
    LET hashes == get_cache_level(s, level)
    IN IF Len(hashes) # 1
       THEN <<>>
       ELSE <<Unwrap(hashes)>> \o StoredLevelsFrom(s, level + 1)

StoredLevels(s) == StoredLevelsFrom(s, 0)

\* Level 0 is `leaves`, every further level pairs the one below it (an odd
\* last element with itself), and the last level is the one element `root`.
LevelInvariant(levels, leaves, root) ==
    /\ Len(levels) >= 1
    /\ levels[1] = leaves
    /\ \A l \in 1..(Len(levels) - 1) :
           /\ Len(levels[l + 1]) = (Len(levels[l]) + 1) \div 2
           /\ \A i \in 1..Len(levels[l + 1]) :
                  levels[l + 1][i] =
                      Keccak256(levels[l][2 * i - 1]
                                \o (IF 2 * i <= Len(levels[l])
                                    THEN levels[l][2 * i]
                                    ELSE levels[l][2 * i - 1]))
    /\ Len(levels[Len(levels)]) = 1
    /\ root = Some(levels[Len(levels)][1])

\* The persistent half: every entry of the cache database is one of the
\* stored levels, the levels satisfy LevelInvariant with the stored leaves
\* and the cached root, and metadata.num_leaves is the number of stored
\* leaves.
PersistentLevelInvariant ==
    LET metadata == get_metadata(storage)
    IN /\ Len(StoredLevels(storage)) = Len(storage.cache_db)
       /\ LevelInvariant(StoredLevels(storage), get_all_leaves(storage),
                         get_root(storage))
       /\ Len(metadata) = 1
       /\ Unwrap(metadata).num_leaves = Len(get_all_leaves(storage))

CacheLevels(k, fill) ==
    Vec([l \in 1..k |-> << <<Byte(l - 1), Byte(fill)>> >>])

InitCache ==
    /\ tree = IMT_new
    /\ storage = LmdbStorage_new
    /\ lmdb = Lmdb_new(LmdbStorage_new)
    /\ smt = SMT_idle
    /\ inserted = <<>>
    /\ call = [op |-> "new", arg |-> <<>>, ret |-> "Ok"]

StoreCacheBatch(cache_levels) ==
    /\ storage' = store_cache_batch(storage, cache_levels)
    /\ call' = [op |-> "store_cache_batch", arg |-> cache_levels, ret |-> "Ok"]
    /\ UNCHANGED <<tree, lmdb, smt, inserted>>

GetAllCacheLevels ==
    /\ call' = [op |-> "get_all_cache_levels", arg |-> <<>>,
                ret |-> get_all_cache_levels(storage)]
    /\ UNCHANGED <<tree, storage, lmdb, smt, inserted>>

ClearCache ==
    /\ storage' = clear_cache(storage)
    /\ call' = [op |-> "clear_cache", arg |-> <<>>, ret |-> "Ok"]
    /\ UNCHANGED <<tree, lmdb, smt, inserted>>

\* A batch never has fewer levels than the cache already holds, as the
\* batches of a growing tree.
NextCache ==
    \/ \E k \in 1..MaxCacheLevels, fill \in 1..MaxFill :
           k >= Len(storage.cache_db) /\ StoreCacheBatch(CacheLevels(k, fill))
    \/ GetAllCacheLevels
    \/ ClearCache

SpecCache == InitCache /\ [][NextCache]_vars

\* C28: after store_cache_batch(levels) with k levels, element l of the
\* list get_all_cache_levels returns equals levels[l] for every l < k.
C28_CacheLevelOrder ==
    call.op = "store_cache_batch" =>
        LET returned == get_all_cache_levels(storage)
        IN /\ IsSome(returned)
           /\ \A l \in 0..(Len(call.arg) - 1) :
                  Get(Unwrap(returned), l) = Some(call.arg[l + 1])

(***************************************************************************)
(* The append specification: a client submits every call to both trees.    *)
(* The in-memory tree takes it as a whole; the persistent tree takes it    *)
(* one storage call at a time, with storage failures, and is reopened      *)
(* between calls.                                                          *)
(***************************************************************************)
\* The call starts on the persistent tree and is done on the in-memory one.
BeginBoth(op, arg) ==
    /\ call.pc = "idle"
    /\ call' = [op |-> op, arg |-> arg, pc |-> "num_leaves", ret |-> "-",
                before |-> storage, current_count |-> 0,
                cache_levels |-> <<>>, num |-> 0, log |-> <<>>]
    /\ tree' = IF op = "add_leaf"
               THEN IMT_add_leaf(tree, arg[1]).tree
               ELSE IMT_add_leaves(tree, arg).tree
    /\ UNCHANGED <<storage, lmdb, smt, inserted>>

\* root() of the in-memory tree, between two calls.
MemRoot ==
    /\ call.pc = "idle"
    /\ ~ tree.cache_valid
    /\ tree' = IMT_root(tree).tree
    /\ UNCHANGED <<storage, lmdb, smt, inserted, call>>

\* Drop the LmdbMerkleTree between two calls and open it again.
ReopenIdle ==
    /\ call.pc = "idle"
    /\ call.ret # "reopened"
    /\ lmdb' = Lmdb_new(storage)
    /\ call' = [call EXCEPT !.ret = "reopened"]
    /\ UNCHANGED <<tree, storage, smt, inserted>>

NextAppend ==
    \/ \E leaf \in LargeLeafValues :
           Len(tree.leaves) < MaxN /\ BeginBoth("add_leaf", <<leaf>>)
    \/ \E leaves \in StepBatches :
           Len(tree.leaves) + Len(leaves) <= MaxN
               /\ BeginBoth("add_leaves", leaves)
    \/ Steps(BOOLEAN)
    \/ ReopenIdle
    \/ MemRoot

SpecAppend == InitSteps /\ [][NextAppend]_vars

\* Indices a leaf can be stored at within the bounds.
LeafIndices == 0..(MaxN + MaxBatch)

SharedBits(kh1, kh2) ==
    Cardinality({n \in 1..smt.depth :
                    \A i \in 0..(n - 1) : bit_at(kh1, i) = bit_at(kh2, i)})

\* The levels whose sibling in `proof` is not the empty hash of the level.
NonEmptyLevels(proof) ==
    {l \in 0..(smt.depth - 1) :
        proof.siblings[l + 1] # hex_encode(smt.empty[l + 1])}

\* Two inserts were made, of keys whose digests share exactly 3 leading
\* bits of their top smt.depth bits.
SeedSMTB ==
    /\ Len(inserted) = 2
    /\ SharedBits(keccak(inserted[1].key), keccak(inserted[2].key)) = 3
    /\ smt.depth > 3

\* C25 (as claimed): after insert(k1, v1), insert(k2, v2) with digests
\* sharing exactly their first 3 bits, get_proof(k1) has exactly 3 siblings
\* that differ from the empty hash of their level, the 3 deepest ones (the
\* 3 nearest the leaf, or the 3 nearest the root).
C25_SeedSharedPrefix_AsClaimed ==
    SeedSMTB =>
        LET levels == NonEmptyLevels(SMT_get_proof(smt, inserted[1].key))
        IN /\ Cardinality(levels) = 3
           /\ \/ levels = 0..2
              \/ levels = (smt.depth - 3)..(smt.depth - 1)

\* C25 (amended): after insert(k1, v1), insert(k2, v2) with digests sharing
\* exactly their first 3 bits, get_proof(k1) has D siblings of which exactly
\* one differs from the empty hash of its level: the one at level D - 4,
\* which is the node of k2's path at that level (k2's leaf hash when D = 4).
C25_SeedSharedPrefix ==
    SeedSMTB =>
        LET k1 == inserted[1].key
            k2 == inserted[2].key
            proof == SMT_get_proof(smt, k1)
            l == smt.depth - 4
            idx2 == leaf_index_from_key_hash(smt, keccak(k2))
            node == get_node(smt.storage, l, idx2 \div (2 ^ l))
        IN /\ Len(proof.siblings) = smt.depth
           /\ NonEmptyLevels(proof) = {l}
           /\ IsSome(node)
           /\ proof.siblings[l + 1] = hex_encode(Unwrap(node))
           /\ l = 0 => Unwrap(node) = hash_leaf(keccak(k2), inserted[2].value)

C25_Witness ==
    /\ SeedSMTB
    /\ call.op = "get_proof"
    /\ call.arg = inserted[1].key
    /\ Cardinality(NonEmptyLevels(call.ret)) = 1

(***************************************************************************)
(* Structural invariants of the sparse tree.                               *)
(***************************************************************************)
\* The node (level, index) as a reader finds it: the stored hash, or the
\* empty hash of the level when it is not materialized.
NodeOrEmpty(level, index) ==
    LET node == get_node(smt.storage, level, index)
    IN IF IsSome(node) THEN Unwrap(node) ELSE smt.empty[level + 1]

\* The indices of the nodes of a level.
LevelIndices(level) == 0..(2 ^ (smt.depth - level) - 1)

\* C27: path consistency of the sparse tree.  In every state reached by
\* inserts, every materialized node (l+1, i) is
\* hash_internal(node(l, 2i), node(l, 2i+1)), an unmaterialized node reading
\* as empty[l]; right after insert(k, v) the node (0, leaf_index(k)) is
\* hash_leaf(H(k), v); and the nodes of a path are written together: every
\* materialized node below the root has its parent materialized, and an
\* insert leaves all D+1 nodes of its path materialized.
C27_PathConsistency ==
    /\ \A l \in 0..(smt.depth - 1) :
           \A i \in LevelIndices(l + 1) :
               IsSome(get_node(smt.storage, l + 1, i)) =>
                   NodeOrEmpty(l + 1, i) =
                       Keccak256(<<Byte(1)>> \o NodeOrEmpty(l, 2 * i)
                                 \o NodeOrEmpty(l, 2 * i + 1))
    /\ \A l \in 0..(smt.depth - 1) :
           \A i \in LevelIndices(l) :
               IsSome(get_node(smt.storage, l, i)) =>
                   IsSome(get_node(smt.storage, l + 1, i \div 2))
    /\ call.op = "insert" =>
           LET key == call.arg[1]
               value == call.arg[2]
               idx == leaf_index_from_key_hash(smt, keccak(key))
           IN /\ get_node(smt.storage, 0, idx) =
                     Some(hash_leaf(keccak(key), value))
              /\ \A l \in 0..smt.depth :
                     IsSome(get_node(smt.storage, l, idx \div (2 ^ l)))

C27_Witness ==
    /\ call.op = "insert"
    /\ smt.depth >= 3
    /\ Len(inserted) = 3
    /\ Cardinality({leaf_index_from_key_hash(smt, keccak(inserted[n].key)) :
                       n \in 1..3}) = 3
    /\ Len(smt.storage.cache_db) >= 2 * (smt.depth + 1)
    /\ SMT_root(smt) =
           Keccak256(<<Byte(1)>> \o NodeOrEmpty(smt.depth - 1, 0)
                     \o NodeOrEmpty(smt.depth - 1, 1))

\* The positions in `inserted` of the inserts that went to leaf index idx.
InsertsAt(idx) ==
    {n \in 1..Len(inserted) :
        leaf_index_from_key_hash(smt, keccak(inserted[n].key)) = idx}

\* The last (key, value) inserted at leaf index idx.
LastAt(idx) ==
    inserted[CHOOSE n \in InsertsAt(idx) : \A m \in InsertsAt(idx) : m <= n]

\* A tree that got, for every leaf index from idx on in the direction
\* `step` (1 upwards, -1 downwards), one insert of the last pair inserted
\* there, each insert done before the next.
RECURSIVE Rebuilt(_, _, _)
Rebuilt(t, idx, step) ==
    IF idx < 0 \/ idx >= 2 ^ smt.depth
    THEN t
    ELSE LET next == IF InsertsAt(idx) = {}
                     THEN t
                     ELSE SMT_insert(t, LastAt(idx).key, LastAt(idx).value).smt
         IN IF next.depth = smt.depth
            THEN Rebuilt(next, idx + step, step)
            ELSE next

\* C30: history independence of the sparse tree.  The stored nodes and
\* root() are those of a fresh tree of the same depth that gets one insert
\* per leaf index, of the last pair inserted there, in ascending order of
\* the index, and also in descending order: they depend on the final
\* mapping from leaf index to pair only.
C30_HistoryIndependence ==
    LET up == Rebuilt(SMT_new(smt.depth), 0, 1)
        down == Rebuilt(SMT_new(smt.depth), 2 ^ smt.depth - 1, -1)
    IN /\ smt.storage = up.storage
       /\ smt.storage = down.storage
       /\ SMT_root(smt) = SMT_root(up)
       /\ SMT_root(smt) = SMT_root(down)

C30_Witness ==
    /\ call.op = "insert"
    /\ Len(inserted) = 3
    /\ smt.depth >= 3
    /\ \E idx \in LevelIndices(0) : Cardinality(InsertsAt(idx)) = 2
    /\ \E i, j \in LevelIndices(0) :
           /\ i < j
           /\ InsertsAt(i) = {3}
           /\ 1 \in InsertsAt(j)
    /\ SMT_root(smt) = SMT_root(Rebuilt(SMT_new(smt.depth), 0, 1))

(***************************************************************************)
(* The shared-access specifications: tasks of the server call one           *)
(* LmdbMerkleTree while each holds only the read lock of the RwLock, as    *)
(* the /lmdb handlers do, so their storage calls interleave.  Every        *)
(* storage call is one LMDB transaction.  The writer tasks make one        *)
(* add_leaf or add_leaves each; the reader task (task 0) makes up to       *)
(* MaxReads reads one after the other.  In this specification `call` is    *)
(* [tasks, initial]: the record of every task and the leaves stored        *)
(* before the tasks started.                                               *)
(***************************************************************************)
Writers == 1..MaxWriters

Reader == 0

\* The leaves a writer submits: add_leaf(<<w>>) or add_leaves(<<w>>, <<w>>).
WriterCalls(w) ==
    {[op |-> "add_leaf", arg |-> << <<Byte(w)>> >>],
     [op |-> "add_leaves", arg |-> << <<Byte(w)>>, <<Byte(w)>> >>]}

ReaderCalls ==
    {[op |-> "num_leaves", arg |-> 0], [op |-> "root", arg |-> 0]}
        \cup {[op |-> "get_proof", arg |-> i] : i \in 0..MaxInitial}

InitialLeaves == {Vec([i \in 1..k |-> <<Byte(10 + i)>>]) : k \in 0..MaxInitial}

IdleTask ==
    [op |-> "-", arg |-> <<>>, pc |-> "idle", ret |-> "-", current_count |-> 0,
     leaves |-> <<>>, obs |-> <<>>, started |-> <<>>]

InitShared ==
    /\ tree = IMT_new
    /\ \E leaves \in InitialLeaves :
           /\ storage = Lmdb_of(leaves)
           /\ call = [tasks |-> [t \in {Reader} \cup Writers |-> IdleTask],
                      initial |-> leaves]
    /\ lmdb = Lmdb_new(storage)
    /\ smt = SMT_idle
    /\ inserted = <<>>

\* How far each writer is: 0 has not begun, 1 is running, 2 has returned.
Progress ==
    [w \in Writers |->
        IF call.tasks[w].op = "-" THEN 0
        ELSE IF call.tasks[w].pc = "idle" THEN 2 ELSE 1]

\* The task returns `ret`; a read is added to the task's observations with
\* the writers' progress when it began and now.
Returned(c, ret) ==
    [c EXCEPT !.pc = "idle", !.ret = ret,
              !.obs = IF c.op \in {"add_leaf", "add_leaves"}
                      THEN @
                      ELSE Append(@, [op |-> c.op, arg |-> c.arg, ret |-> ret,
                                      started |-> c.started,
                                      ended |-> Progress])]

\* One storage call of a writer: the task record and the store afterwards.
WriterStep(c, s) ==
    CASE c.pc = "num_leaves" ->
             LET current_count == Lmdb_num_leaves(s)
                 exceeded ==
                     IF c.op = "add_leaf"
                     THEN ~ u64_less(to_le_bytes(current_count), lmdb.max_leaves)
                     ELSE u64_less(lmdb.max_leaves,
                                   to_le_bytes(current_count + Len(c.arg)))
             IN [task |-> IF exceeded
                          THEN Returned(c, "Err")
                          ELSE [c EXCEPT !.pc = "store_leaves",
                                         !.current_count = current_count],
                 storage |-> s]
      [] c.pc = "store_leaves" ->
             [task |-> [c EXCEPT !.pc = "get_all_leaves"],
              storage |-> IF c.op = "add_leaf"
                          THEN store_leaf(s, c.current_count, c.arg[1])
                          ELSE append_leaves(s, c.current_count, c.arg)]
      [] c.pc = "get_all_leaves" ->
             LET leaves == get_all_leaves(s)
             IN [task |-> [c EXCEPT !.leaves = leaves,
                                    !.pc = IF leaves = <<>>
                                           THEN "clear_cache"
                                           ELSE "store_cache_batch"],
                 storage |-> s]
      [] c.pc = "clear_cache" ->
             [task |-> [c EXCEPT !.pc = "store_metadata_empty"],
              storage |-> clear_cache(s)]
      [] c.pc = "store_metadata_empty" ->
             [task |-> Returned(c, "Ok"),
              storage |-> store_metadata(s, [num_leaves |-> 0,
                                            max_leaves |-> lmdb.max_leaves])]
      [] c.pc = "store_cache_batch" ->
             LET r == Lmdb_compute_levels(<<c.leaves>>, 0)
             IN IF r.returned
                THEN [task |-> Returned(c, "Err"), storage |-> s]
                ELSE [task |-> [c EXCEPT !.pc = "store_root"],
                      storage |-> store_cache_batch(s, r.cache_levels)]
      [] c.pc = "store_root" ->
             LET cache_levels == Lmdb_compute_levels(<<c.leaves>>, 0).cache_levels
                 root_level == cache_levels[Len(cache_levels)]
             IN [task |-> [c EXCEPT !.pc = "store_metadata"],
                 storage |-> IF Len(root_level) >= 1
                             THEN store_root(s, root_level[1]) ELSE s]
      [] c.pc = "store_metadata" ->
             [task |-> [c EXCEPT !.pc = "sync"],
              storage |-> store_metadata(s, [num_leaves |-> Len(c.leaves),
                                            max_leaves |-> lmdb.max_leaves])]
      [] c.pc = "sync" ->
             [task |-> Returned(c, "Ok"), storage |-> s]

\* One storage call of a reader: num_leaves() first, then get_root for
\* root() and get_all_cache_levels for get_proof(index).
ReaderStep(c, s) ==
    CASE c.pc = "num_leaves" ->
             LET num_leaves == Lmdb_num_leaves(s)
             IN IF c.op = "num_leaves"
                THEN Returned(c, num_leaves)
                ELSE IF c.op = "root"
                     THEN IF num_leaves = 0
                          THEN Returned(c, None)
                          ELSE [c EXCEPT !.pc = "get_root"]
                     ELSE IF c.arg >= num_leaves
                          THEN Returned(c, None)
                          ELSE [c EXCEPT !.pc = "get_all_cache_levels",
                                         !.current_count = num_leaves]
      [] c.pc = "get_root" -> Returned(c, get_root(s))
      [] c.pc = "get_all_cache_levels" ->
             LET cache_levels == get_all_cache_levels(s)
             IN Returned(c,
                    IF ~ IsSome(cache_levels) \/ Unwrap(cache_levels) = <<>>
                    THEN None
                    ELSE Lmdb_proof_loop(Unwrap(cache_levels), c.current_count,
                                         <<>>, c.arg, 0, 0))

\* A task takes the read lock and calls the tree.
BeginTask(t, request) ==
    /\ call.tasks[t].pc = "idle"
    /\ call' = [call EXCEPT !.tasks[t] =
                    [@ EXCEPT !.op = request.op, !.arg = request.arg,
                              !.pc = "num_leaves", !.ret = "-",
                              !.started = Progress]]
    /\ UNCHANGED <<tree, storage, lmdb, smt, inserted>>

WriterTask(w) ==
    /\ call.tasks[w].pc # "idle"
    /\ LET r == WriterStep(call.tasks[w], storage)
       IN /\ storage' = r.storage
          /\ call' = [call EXCEPT !.tasks[w] = r.task]
    /\ UNCHANGED <<tree, lmdb, smt, inserted>>

ReaderTask ==
    /\ call.tasks[Reader].pc # "idle"
    /\ call' = [call EXCEPT !.tasks[Reader] = ReaderStep(@, storage)]
    /\ UNCHANGED <<tree, storage, lmdb, smt, inserted>>

\* Several writers and no reader.
NextWriters ==
    \/ \E w \in Writers :
           \E request \in WriterCalls(w) :
               call.tasks[w].op = "-" /\ BeginTask(w, request)
    \/ \E w \in Writers : WriterTask(w)

SpecWriters == InitShared /\ [][NextWriters]_vars

\* One writer and the reader.
NextReadWrite ==
    \/ \E request \in WriterCalls(1) :
           call.tasks[1].op = "-" /\ BeginTask(1, request)
    \/ \E request \in ReaderCalls :
           Len(call.tasks[Reader].obs) < MaxReads /\ BeginTask(Reader, request)
    \/ WriterTask(1)
    \/ ReaderTask

SpecReadWrite == InitShared /\ [][NextReadWrite]_vars

(***************************************************************************)
(* Claims on shared access to the persistent tree.                         *)
(***************************************************************************)
\* Every writer has made its call and got Ok.
AllWritersOk ==
    \A w \in Writers :
        /\ call.tasks[w].op # "-"
        /\ call.tasks[w].pc = "idle"
        /\ call.tasks[w].ret = "Ok"

RECURSIVE SubmittedUpTo(_)
SubmittedUpTo(w) ==
    IF w = 0 THEN 0 ELSE Len(call.tasks[w].arg) + SubmittedUpTo(w - 1)

\* The number of leaves the writers submitted.
Submitted == SubmittedUpTo(MaxWriters)

\* C21: concurrent writers under the read lock are serialized.  When every
\* writer has returned Ok, num_leaves() has grown by the number of leaves
\* submitted, the leaves stored before are in place, every writer's leaves
\* are stored at consecutive indices of their own, num_leaves() does not
\* exceed max_leaves, and root() is the root of the stored leaves.
C21_WritersSerialized ==
    AllWritersOk =>
        LET leaves == get_all_leaves(storage)
            n0 == Len(call.initial)
        IN /\ Lmdb_num_leaves(storage) = n0 + Submitted
           /\ Len(leaves) = n0 + Submitted
           /\ SubSeq(leaves, 1, n0) = call.initial
           /\ \E at \in [Writers -> n0..(n0 + Submitted)] :
                  /\ \A w \in Writers :
                         \A j \in 1..Len(call.tasks[w].arg) :
                             get_leaf(storage, at[w] + j - 1)
                                 = Some(call.tasks[w].arg[j])
                  /\ \A v, w \in Writers :
                         v # w =>
                             \/ at[v] + Len(call.tasks[v].arg) <= at[w]
                             \/ at[w] + Len(call.tasks[w].arg) <= at[v]
           /\ ~ u64_less(lmdb.max_leaves, to_le_bytes(Lmdb_num_leaves(storage)))
           /\ Lmdb_root(storage) = Some(RefRoot(leaves))

\* The store before (version 0) and after (version 1) the writer's call, the
\* call taken as a whole.
VersionStorage(v) ==
    LET before == Lmdb_of(call.initial)
        c == call.tasks[1]
    IN IF v = 0 \/ c.op = "-" THEN before
       ELSE IF c.op = "add_leaf"
            THEN Lmdb_add_leaf(before, lmdb, c.arg[1]).storage
            ELSE Lmdb_add_leaves(before, lmdb, c.arg).storage

\* What a read returns on store s.
ReadOn(s, op, arg) ==
    IF op = "num_leaves" THEN Lmdb_num_leaves(s)
    ELSE IF op = "root" THEN Lmdb_root(s)
    ELSE Lmdb_get_proof(s, arg)

\* The versions a completed read may have observed: its result is the
\* read's result on that version, version 1 exists only once the writer has
\* begun, and a read begun after the writer returned observes version 1.
ObservedVersions(o) ==
    {v \in {0, 1} :
        /\ o.ret = ReadOn(VersionStorage(v), o.op, o.arg)
        /\ v = 1 => o.ended[1] >= 1
        /\ v = 0 => o.started[1] < 2}

\* C22: the reads of one task running next to an add_leaf/add_leaves are
\* linearizable.  Every completed read returns what it returns on the store
\* entirely before or entirely after the mutation, and the versions observed
\* by the task's successive reads never go back; so a proof verifies against
\* the root of the version it observed and a later root() is not older.
C22_Linearizable ==
    LET obs == call.tasks[Reader].obs
    IN \E version \in [1..Len(obs) -> {0, 1}] :
           /\ \A i \in 1..Len(obs) : version[i] \in ObservedVersions(obs[i])
           /\ \A i, j \in 1..Len(obs) : i < j => version[i] <= version[j]

(***************************************************************************)
(* The in-memory tree behind the write lock: tasks calling add_leaves and  *)
(* one task calling root() several times, each call made while holding     *)
(* `state.tree.write().await`.  call.holder is the task holding the lock,  *)
(* call.order the tasks that added leaves, in the order they took it.      *)
(***************************************************************************)
Adders == 1..MaxAdders

RootTask == 0

\* The batch of task t, of k leaves.
TaskBatch(t, k) == Vec([j \in 1..k |-> <<Byte(20 * t + j)>>])

InitExclusive ==
    /\ tree = IMT_new
    /\ storage = LmdbStorage_new
    /\ lmdb = Lmdb_new(LmdbStorage_new)
    /\ smt = SMT_idle
    /\ inserted = <<>>
    /\ \E size \in [Adders -> 0..MaxTaskBatch] :
           call = [tasks |-> [t \in {RootTask} \cup Adders |->
                                 [pc |-> "start", ret |-> "-", calls |-> 0,
                                  batch |-> IF t = RootTask THEN <<>>
                                            ELSE TaskBatch(t, size[t])]],
                   holder |-> None,
                   order |-> <<>>]

\* `state.tree.write().await`: granted when no task holds the lock.
AcquireWrite(t) ==
    /\ call.tasks[t].pc = "start"
    /\ call.holder = None
    /\ call' = [call EXCEPT !.holder = Some(t),
                            !.tasks[t].pc = "locked",
                            !.order = IF t = RootTask THEN @ ELSE Append(@, t)]
    /\ UNCHANGED <<tree, storage, lmdb, smt, inserted>>

\* `tree.add_leaves(batch)` by the holder of the lock.
AddLeavesLocked(t) ==
    /\ call.holder = Some(t)
    /\ call.tasks[t].pc = "locked"
    /\ LET r == IMT_add_leaves(tree, call.tasks[t].batch)
       IN /\ tree' = r.tree
          /\ call' = [call EXCEPT !.tasks[t].pc = "release",
                                  !.tasks[t].ret = r.ret,
                                  !.tasks[t].calls = @ + 1]
    /\ UNCHANGED <<storage, lmdb, smt, inserted>>

\* `tree.root()` by the holder of the lock.
RootLocked ==
    /\ call.holder = Some(RootTask)
    /\ call.tasks[RootTask].pc = "locked"
    /\ LET r == IMT_root(tree)
       IN /\ tree' = r.tree
          /\ call' = [call EXCEPT !.tasks[RootTask].pc = "release",
                                  !.tasks[RootTask].ret = r.ret,
                                  !.tasks[RootTask].calls = @ + 1]
    /\ UNCHANGED <<storage, lmdb, smt, inserted>>

\* The guard is dropped; the root task goes on to its next call.
ReleaseWrite(t) ==
    /\ call.holder = Some(t)
    /\ call.tasks[t].pc = "release"
    /\ call' = [call EXCEPT !.holder = None,
                            !.tasks[t].pc =
                                IF t = RootTask /\ call.tasks[t].calls < MaxRoots
                                THEN "start" ELSE "done"]
    /\ UNCHANGED <<tree, storage, lmdb, smt, inserted>>

NextExclusive ==
    \/ \E t \in {RootTask} \cup Adders : AcquireWrite(t)
    \/ \E t \in Adders : AddLeavesLocked(t)
    \/ RootLocked
    \/ \E t \in {RootTask} \cup Adders : ReleaseWrite(t)

SpecExclusive == InitExclusive /\ [][NextExclusive]_vars

\* Every task has made its calls and released the lock.
AllTasksDone == \A t \in {RootTask} \cup Adders : call.tasks[t].pc = "done"

RECURSIVE BatchesUpTo(_)
BatchesUpTo(k) ==
    IF k = 0 THEN <<>>
    ELSE BatchesUpTo(k - 1) \o call.tasks[call.order[k]].batch

\* The whole batches, one after the other in lock-acquisition order.
BatchesInOrder == BatchesUpTo(Len(call.order))

RECURSIVE BatchSizesUpTo(_)
BatchSizesUpTo(t) ==
    IF t = 0 THEN 0 ELSE Len(call.tasks[t].batch) + BatchSizesUpTo(t - 1)

====
